---- MODULE Spec2Model ----
(***************************************************************************)
(* scripts/dev_admin_token.py: the local admin-token issuer.               *)
(*                                                                         *)
(* One invocation of the script is a run of main(): it resolves the JWT    *)
(* secret and the lifetime with load_config_value (environment first,      *)
(* then config/default.toml), reads the clock, builds the claims, encodes  *)
(* header and payload, signs them with HMAC-SHA256 and prints the token.   *)
(*                                                                         *)
(* Python str and bytes values are sequences of character codes (0..255);  *)
(* an optional value (str | None) is <<>> for None and <<v>> for v.        *)
(***************************************************************************)
EXTENDS Integers, Sequences, FiniteSets, TLC

VARIABLES
    env,          \* os.environ: variable name -> optional str
    file,         \* config/default.toml on disk
    clock,        \* what time.time() returns during this invocation
    rng,          \* what the calls of uuid.uuid4() return, in call order
    default_permissions,  \* the module-level list DEFAULT_PERMISSIONS
    pc,           \* position of the run
    key,          \* load_config_value's parameter in the current call
    ret,          \* outcome of the last load_config_value call
    fh_open,      \* the file handle of the with-block is open
    file_opens,   \* number of open() calls that succeeded in this invocation
    clock_reads,  \* number of time.time() calls in this invocation
    uuid_calls,   \* number of uuid.uuid4() calls in this invocation
    secret, exp_seconds, now, exp,
    claims, header, header_b64, payload_b64, signing_input,
    signature, signature_b64, token,
    stdout,       \* the text written to sys.stdout
    stderr,       \* the lines written to sys.stderr
    exit_status,  \* the process's exit status, -1 while it runs
    invocation,   \* 1 for the first invocation, 2 for the next one
    prev          \* what the previous invocation read and printed

vars == <<env, file, clock, rng, default_permissions, pc, key, ret, fh_open,
          file_opens, clock_reads,
          uuid_calls, secret, exp_seconds, now, exp, claims, header, header_b64,
          payload_b64, signing_input, signature, signature_b64, token,
          stdout, stderr, exit_status, invocation, prev>>

world == <<env, file, clock, rng, default_permissions>>
locals == <<secret, exp_seconds, now, exp, claims, header, header_b64,
            payload_b64, signing_input, signature, signature_b64, token>>
encoded == <<header, header_b64, payload_b64, signing_input, signature,
             signature_b64, token>>

-----------------------------------------------------------------------------
(* Optional values and Python truthiness.                                  *)

None == <<>>
Some(v) == <<v>>

\* bool(x) for x : str | None, as in `if val:`, `if not secret:`, `x or "3600"`.
Truthy(opt) == opt # None /\ opt[1] # <<>>

-----------------------------------------------------------------------------
(* Text used by the script.                                                *)

\* "3600"
STR_3600 == <<51, 54, 48, 48>>
\* "Unable to locate JWT secret. Set APP__JWT_SECRET or update config/default.toml."
MSG_NO_SECRET ==
    <<85, 110, 97, 98, 108, 101, 32, 116, 111, 32, 108, 111, 99, 97, 116, 101, 32, 74,
      87, 84, 32, 115, 101, 99, 114, 101, 116, 46, 32, 83, 101, 116, 32, 65, 80, 80,
      95, 95, 74, 87, 84, 95, 83, 69, 67, 82, 69, 84, 32, 111, 114, 32, 117, 112, 100,
      97, 116, 101, 32, 99, 111, 110, 102, 105, 103, 47, 100, 101, 102, 97, 117, 108,
      116, 46, 116, 111, 109, 108, 46>>
\* "Traceback (most recent call last):"
MSG_TRACEBACK ==
    <<84, 114, 97, 99, 101, 98, 97, 99, 107, 32, 40, 109, 111, 115, 116, 32, 114, 101,
      99, 101, 110, 116, 32, 99, 97, 108, 108, 32, 108, 97, 115, 116, 41, 58>>
\* "PermissionError: [Errno 13] Permission denied: 'config/default.toml'":
\* the last line of the traceback when open() of line 89 is refused.
MSG_PERMISSION_ERROR ==
    <<80, 101, 114, 109, 105, 115, 115, 105, 111, 110, 69, 114, 114, 111, 114, 58, 32, 91,
      69, 114, 114, 110, 111, 32, 49, 51, 93, 32, 80, 101, 114, 109, 105, 115, 115, 105,
      111, 110, 32, 100, 101, 110, 105, 101, 100, 58, 32, 39, 99, 111, 110, 102, 105, 103,
      47, 100, 101, 102, 97, 117, 108, 116, 46, 116, 111, 109, 108, 39>>
\* "tomllib.TOMLDecodeError: Invalid value (at line 1, column 14)":
\* the last line of the traceback when tomllib.load() of line 90 rejects the
\* document of FileInvalid.
MSG_TOML_DECODE_ERROR ==
    <<116, 111, 109, 108, 108, 105, 98, 46, 84, 79, 77, 76, 68, 101, 99, 111, 100, 101, 69,
      114, 114, 111, 114, 58, 32, 73, 110, 118, 97, 108, 105, 100, 32, 118, 97, 108, 117,
      101, 32, 40, 97, 116, 32, 108, 105, 110, 101, 32, 49, 44, 32, 99, 111, 108, 117, 109,
      110, 32, 49, 52, 41>>
\* "ValueError: Exceeds the limit (4300 digits) for integer string
\* conversion; use sys.set_int_max_str_digits() to increase the limit": the
\* last line of the traceback when str(val) of line 93 or json.dumps of line
\* 138 meets an int of more than 4300 digits.
MSG_VALUE_ERROR ==
    <<86, 97, 108, 117, 101, 69, 114, 114, 111, 114, 58, 32, 69, 120, 99, 101, 101, 100,
      115, 32, 116, 104, 101, 32, 108, 105, 109, 105, 116, 32, 40, 52, 51, 48, 48, 32, 100,
      105, 103, 105, 116, 115, 41, 32, 102, 111, 114, 32, 105, 110, 116, 101, 103, 101, 114,
      32, 115, 116, 114, 105, 110, 103, 32, 99, 111, 110, 118, 101, 114, 115, 105, 111, 110,
      59, 32, 117, 115, 101, 32, 115, 121, 115, 46, 115, 101, 116, 95, 105, 110, 116, 95,
      109, 97, 120, 95, 115, 116, 114, 95, 100, 105, 103, 105, 116, 115, 40, 41, 32, 116,
      111, 32, 105, 110, 99, 114, 101, 97, 115, 101, 32, 116, 104, 101, 32, 108, 105, 109,
      105, 116>>

-----------------------------------------------------------------------------
(* Python's int, str(int) and int(str).                                    *)

\* The decimal digits ("0".."9" as code points) of a natural number of the
\* model's own arithmetic.
RECURSIVE NatToStr(_)
NatToStr(n) ==
    IF n < 10 THEN <<48 + n>>
    ELSE Append(NatToStr(n \div 10), 48 + (n % 10))

\* A Python int has no largest value: it is held as its sign and the
\* decimal digits of its magnitude, most significant first, with no leading
\* zero (zero is the digit "0" and is not negative).  PyInt(n) is the int
\* whose value is n.
PyInt(n) == [neg |-> n < 0, mag |-> NatToStr(IF n < 0 THEN 0 - n ELSE n)]

\* str() and repr() of an int, and int() of a str, refuse more digits than
\* this (sys.int_info's default_max_str_digits): a ValueError, "Exceeds the
\* limit (4300 digits) for integer string conversion".
MAX_STR_DIGITS == 4300

\* str(x) of a Python int: [ok |-> FALSE] stands for ValueError.
IntToStr(x) ==
    IF Len(x.mag) > MAX_STR_DIGITS THEN [ok |-> FALSE, s |-> <<>>]
    ELSE [ok |-> TRUE, s |-> (IF x.neg THEN <<45>> ELSE <<>>) \o x.mag]

\* The code points below 256 that int() strips from both ends of a str:
\* the ASCII white space, U+0085 and U+00A0 (28..31 are kept).
IsSpace(c) == c \in {9, 10, 11, 12, 13, 32, 133, 160}
IsDigit(c) == c >= 48 /\ c <= 57

LStrip(s) ==
    LET kept == {i \in 1..Len(s) : ~IsSpace(s[i])}
    IN  IF kept = {} THEN <<>>
        ELSE SubSeq(s, CHOOSE i \in kept : \A j \in kept : i <= j, Len(s))

RStripSpace(s) ==
    LET kept == {i \in 1..Len(s) : ~IsSpace(s[i])}
    IN  IF kept = {} THEN <<>>
        ELSE SubSeq(s, 1, CHOOSE i \in kept : \A j \in kept : i >= j)

\* The value of at most nine digits.
RECURSIVE DigitsValue(_, _, _)
DigitsValue(s, i, acc) ==
    IF i > Len(s) THEN acc
    ELSE DigitsValue(s, i + 1, acc * 10 + (s[i] - 48))

\* Digits without their leading zeros ("0" for zero).
StripZeros(s) ==
    LET kept == {i \in 1..Len(s) : s[i] # 48}
    IN  IF kept = {} THEN <<48>>
        ELSE SubSeq(s, CHOOSE i \in kept : \A j \in kept : i <= j, Len(s))

\* int(s) for a str s: [ok |-> FALSE] stands for ValueError.
IntOfStr(s) ==
    LET t == RStripSpace(LStrip(s))
        signed == t # <<>> /\ t[1] \in {43, 45}
        d == IF signed THEN Tail(t) ELSE t
        \* an int literal: digits, with single underscores between digits
        literal == \A i \in 1..Len(d) :
                      \/ IsDigit(d[i])
                      \/ /\ d[i] = 95
                         /\ i > 1 /\ i < Len(d)
                         /\ IsDigit(d[i - 1]) /\ IsDigit(d[i + 1])
        digits == SelectSeq(d, IsDigit)
        mag == StripZeros(digits)
    IN  IF d = <<>> \/ ~literal \/ Len(digits) > MAX_STR_DIGITS
        THEN [ok |-> FALSE, n |-> PyInt(0)]
        ELSE [ok |-> TRUE,
              n |-> [neg |-> signed /\ t[1] = 45 /\ mag # <<48>>, mag |-> mag]]

\* x + y of two Python ints, worked out in groups of nine digits.
PyAdd(x, y) ==
    LET n == ((IF Len(x.mag) > Len(y.mag) THEN Len(x.mag) ELSE Len(y.mag)) + 8) \div 9
        \* the i-th group of nine digits of a, counted from the right
        Limb(a, i) ==
            LET hi == Len(a) - 9 * (i - 1)
                lo == IF hi > 9 THEN hi - 8 ELSE 1
            IN  IF hi < 1 THEN 0 ELSE DigitsValue(SubSeq(a, lo, hi), 1, 0)
        \* the groups of a + b (sign = 1) or a - b (sign = -1), before carries
        Groups(a, b, sign) ==
            SubSeq([i \in 1..n |-> Limb(a, i) + sign * Limb(b, i)], 1, n)
        \* The carry (or borrow) into group i comes from the nearest group
        \* below it that does not hand a carry on: `pass` is what a group
        \* that hands it on holds, and a group beyond `pass` makes one.
        Carried(g, pass, sign) ==
            LET stop == {j \in 1..n : g[j] # pass}
                Carry(i) ==
                    IF \E j \in stop : /\ j < i
                                       /\ sign * g[j] > sign * pass
                                       /\ \A k \in stop : k < i => k <= j
                    THEN 1 ELSE 0
            IN  SubSeq([i \in 1..(n + 1) |->
                          IF i > n THEN Carry(i)
                          ELSE (g[i] + sign * Carry(i)) % 1000000000],
                       1, n + 1)
        Digits(r) ==
            [p \in 1..(9 * (n + 1)) |->
                48 + ((r[n + 1 - ((p - 1) \div 9)] \div (10 ^ (8 - ((p - 1) % 9)))) % 10)]
        Add(a, b) == StripZeros(Digits(Carried(Groups(a, b, 1), 999999999, 1)))
        Sub(a, b) == StripZeros(Digits(Carried(Groups(a, b, 0 - 1), 0, 0 - 1)))
        \* a < b for digits without leading zeros
        Less(a, b) ==
            \/ Len(a) < Len(b)
            \/ /\ Len(a) = Len(b)
               /\ LET differ == {i \in 1..Len(a) : a[i] # b[i]}
                  IN  \E i \in differ : a[i] < b[i] /\ \A j \in differ : i <= j
        Signed(neg, mag) == [neg |-> neg /\ mag # <<48>>, mag |-> mag]
    IN  IF x.neg = y.neg THEN Signed(x.neg, Add(x.mag, y.mag))
        ELSE IF Less(x.mag, y.mag) THEN Signed(y.neg, Sub(y.mag, x.mag))
        ELSE Signed(x.neg, Sub(x.mag, y.mag))

-----------------------------------------------------------------------------
(* The world of an invocation: environment, config file, clock, uuid4.     *)

EnvNames == {"APP__JWT_SECRET", "JWT_SECRET", "APP__JWT_EXPIRATION", "JWT_EXPIRATION"}
ConfigKeys == {"jwt_secret", "jwt_expiration"}

\* A value of a TOML document: a string or an integer (a Python int; a
\* hexadecimal literal can hold one of any size).
TomlStr(s) == [type |-> "str", s |-> s, n |-> PyInt(0)]
TomlInt(n) == [type |-> "int", s |-> <<>>, n |-> n]

\* str(val) for a TOML value: [ok |-> FALSE] stands for ValueError.
PyStr(val) == IF val.type = "str" THEN [ok |-> TRUE, s |-> val.s] ELSE IntToStr(val.n)

\* config/default.toml: absent, present but not openable, present but not
\* TOML (the one line `jwt_secret = `, a key without a value), or a TOML
\* document whose top-level table is `table`.
NoTable == [k \in ConfigKeys |-> None]
FileMissing == [kind |-> "missing", table |-> NoTable]
FileUnreadable == [kind |-> "unreadable", table |-> NoTable]
FileInvalid == [kind |-> "invalid", table |-> NoTable]
FileValid(sec, life) ==
    [kind |-> "valid", table |-> [k \in ConfigKeys |-> IF k = "jwt_secret" THEN sec ELSE life]]

\* "topsecret", "legacy", "filesecret"
STR_topsecret == <<116, 111, 112, 115, 101, 99, 114, 101, 116>>
STR_legacy == <<108, 101, 103, 97, 99, 121>>
STR_filesecret == <<102, 105, 108, 101, 115, 101, 99, 114, 101, 116>>
\* "abc", "60", "-60", "120", "soon"
STR_abc == <<97, 98, 99>>
STR_60 == <<54, 48>>
STR_minus60 == <<45, 54, 48>>
STR_120 == <<49, 50, 48>>
STR_soon == <<115, 111, 111, 110>>
\* "\xa0120" (U+00A0 before the digits) and "60\x85" (U+0085 after them)
STR_nbsp120 == <<160, 49, 50, 48>>
STR_60nel == <<54, 48, 133>>
\* "111...1", one digit more than int() accepts, and "999...9", as many
\* digits as it accepts
STR_4301_DIGITS == [i \in 1..(MAX_STR_DIGITS + 1) |-> 49]
STR_4300_NINES == [i \in 1..MAX_STR_DIGITS |-> 57]
\* 10^4300, the least int that str() refuses; a file writes it in
\* hexadecimal (0x...)
INT_4301_DIGITS == [neg |-> FALSE, mag |-> <<49>> \o [i \in 1..MAX_STR_DIGITS |-> 48]]

\* Two results of uuid.uuid4() (16 bytes each, version 4, variant 10):
\* 3f2b8c1e-7a4d-4e6f-9b0a-1c2d3e4f5a6b and 9d8c7b6a-5e4f-4a3b-8c2d-1e0f9a8b7c6d
UUID_A == <<63, 43, 140, 30, 122, 77, 78, 111, 155, 10, 28, 45, 62, 79, 90, 107>>
UUID_B == <<157, 140, 123, 106, 94, 79, 74, 59, 140, 45, 30, 15, 154, 139, 124, 109>>

\* A result of uuid.uuid4() for sub and one for jti: each call is a draw of
\* os.urandom(16) of its own, nothing is kept and nothing is compared, so any
\* value can come at either call, the same one twice included.
Rngs == {UUID_A, UUID_B} \X {UUID_A, UUID_B}

\* A reading of time.time(): whole seconds since the epoch and the fraction.
TimeAt(sec, ms) == [sec |-> sec, ms |-> ms]

\* The clock of a run: what successive calls of time.time() return, one
\* second apart, the first one being sec + ms/1000.
StartTime == 1700000000
MaxReads == 2
MaxTick == 1
ClockFrom(sec, ms) == [i \in 1..MaxReads |-> TimeAt(sec + (i - 1), ms)] \o <<>>
Clocks == {ClockFrom(StartTime + d, ms) : d \in 0..MaxTick, ms \in {250, 750}}

Env(app_secret, jwt_secret, app_exp, jwt_exp) ==
    [n \in EnvNames |->
        CASE n = "APP__JWT_SECRET" -> app_secret
          [] n = "JWT_SECRET" -> jwt_secret
          [] n = "APP__JWT_EXPIRATION" -> app_exp
          [] n = "JWT_EXPIRATION" -> jwt_exp]

\* An environment variable that is not set, or set to the empty string.
Unset == {None, Some(<<>>)}

\* Every state of the secret's three sources (no lifetime variable set):
\* all the files with both variables unset or empty, and every pair of
\* variables with no file and with a file that holds a secret.
SecretFiles ==
    {FileMissing, FileUnreadable, FileInvalid,
     FileValid(None, None),
     FileValid(Some(TomlStr(<<>>)), None),
     FileValid(Some(TomlInt(INT_4301_DIGITS)), None),
     FileValid(Some(TomlStr(STR_filesecret)), None),
     FileValid(Some(TomlStr(STR_filesecret)), Some(TomlInt(PyInt(7200))))}
SecretSweep ==
    {<<Env(a, j, None, None), f>> : a \in Unset, j \in Unset, f \in SecretFiles}
    \cup {<<Env(a, j, None, None), f>> :
            a \in Unset \cup {Some(STR_topsecret)},
            j \in Unset \cup {Some(STR_legacy)},
            f \in {FileMissing, FileValid(Some(TomlStr(STR_filesecret)), None)}}

\* Every state of the lifetime's three sources, the secret being in
\* APP__JWT_SECRET: all the files with both variables unset or both empty,
\* every pair of variables with no file, and four pairs with a file that
\* holds a lifetime (in two of them the first non-empty variable holds
\* "abc"); and three lifetimes that int() treats in its own way: white
\* space beyond ASCII around the digits, in the file and in a variable,
\* more digits than int() accepts, a lifetime that takes exp beyond the
\* digits that json.dumps accepts, and a file's integer beyond those that
\* str() accepts.
LifetimeFiles ==
    {FileMissing, FileUnreadable, FileInvalid,
     FileValid(None, None),
     FileValid(None, Some(TomlInt(PyInt(7200)))),
     FileValid(None, Some(TomlStr(STR_soon))),
     FileValid(None, Some(TomlStr(<<>>)))}
LifetimeSweep ==
    {<<Env(Some(STR_topsecret), None, a, a), f>> : a \in Unset, f \in LifetimeFiles}
    \cup {<<Env(Some(STR_topsecret), None, a, j), FileMissing>> :
            a \in Unset \cup {Some(STR_abc), Some(STR_60), Some(STR_minus60)},
            j \in Unset \cup {Some(STR_120)}}
    \cup {<<Env(Some(STR_topsecret), None, a, Some(STR_120)),
            FileValid(None, Some(TomlInt(PyInt(7200))))>> :
            a \in {Some(<<>>), Some(STR_60), Some(STR_abc)}}
    \cup {<<Env(Some(STR_topsecret), None, None, Some(STR_abc)),
            FileValid(None, Some(TomlInt(PyInt(7200))))>>}
    \cup {<<Env(Some(STR_topsecret), None, None, None),
            FileValid(None, Some(TomlStr(STR_nbsp120)))>>,
          <<Env(Some(STR_topsecret), None, Some(STR_60nel), None), FileMissing>>,
          <<Env(Some(STR_topsecret), None, Some(STR_4301_DIGITS), None), FileMissing>>,
          <<Env(Some(STR_topsecret), None, Some(STR_4300_NINES), None), FileMissing>>,
          <<Env(Some(STR_topsecret), None, None, None),
            FileValid(None, Some(TomlInt(INT_4301_DIGITS)))>>}

\* The worlds of a second run: the first run's, the same secret and lifetime
\* from other sources, another secret, and two worlds with no secret.
PairFirst == <<Env(Some(STR_topsecret), None, None, None), FileMissing>>
PairWorlds ==
    {PairFirst,
     <<Env(Some(<<>>), Some(STR_topsecret), None, None),
       FileValid(Some(TomlStr(STR_filesecret)), Some(TomlInt(PyInt(3600))))>>,
     <<Env(None, Some(STR_legacy), None, None), FileMissing>>,
     <<Env(None, None, None, None), FileUnreadable>>,
     <<Env(None, None, None, None), FileMissing>>}

\* Every state of the four variables: each one unset, empty, or holding a
\* value.
AllEnvs ==
    {Env(a, j, x, y) :
        a \in Unset \cup {Some(STR_topsecret)},
        j \in Unset \cup {Some(STR_legacy)},
        x \in Unset \cup {Some(STR_60)},
        y \in Unset \cup {Some(STR_120)}}

\* A file that parses and holds neither key, and one that holds both.
FileEmpty == FileValid(None, None)
FileBoth == FileValid(Some(TomlStr(STR_filesecret)), Some(TomlInt(PyInt(7200))))

\* The command run twice in one environment, config/default.toml being
\* changed in between (environment, file of the first run, file of the
\* second): from no file to a file without the keys in every environment;
\* from no file to an unreadable file, to one that is not TOML and to one
\* that holds both keys where the variables supply both settings; and from
\* no file to an unreadable one where no variable supplies the lifetime.
FileChanges ==
    {<<e, FileMissing, FileEmpty>> : e \in AllEnvs}
    \cup {<<e, FileMissing, f>> :
            e \in {Env(Some(STR_topsecret), None, Some(STR_60), None),
                   Env(Some(<<>>), Some(STR_legacy), None, Some(STR_120))},
            f \in {FileUnreadable, FileInvalid, FileBoth}}
    \cup {<<Env(Some(STR_topsecret), None, None, None), FileMissing, FileUnreadable>>}

-----------------------------------------------------------------------------
(* load_config_value(key), lines 76-97.                                    *)

\* A variant of env_map: the legacy names before the APP__ names.
env_map_legacy_first(k) ==
    CASE k = "jwt_secret" -> <<"JWT_SECRET", "APP__JWT_SECRET">>
      [] k = "jwt_expiration" -> <<"JWT_EXPIRATION", "APP__JWT_EXPIRATION">>
      [] OTHER -> <<>>

env_map(k) ==
    CASE k = "jwt_secret" -> <<"APP__JWT_SECRET", "JWT_SECRET">>
      [] k = "jwt_expiration" -> <<"APP__JWT_EXPIRATION", "JWT_EXPIRATION">>
      [] OTHER -> <<>>

\* A variant of EnvLookup: only the first candidate is looked at.
EnvLookupPrimaryOnly(e, candidates, i) ==
    IF i <= Len(candidates) /\ Truthy(e[candidates[i]]) THEN e[candidates[i]]
    ELSE None

\* for candidate in env_map.get(key, ()): val = os.environ.get(candidate);
\* if val: return val
RECURSIVE EnvLookup(_, _, _)
EnvLookup(e, candidates, i) ==
    IF i > Len(candidates) THEN None
    ELSE IF Truthy(e[candidates[i]]) THEN e[candidates[i]]
    ELSE EnvLookup(e, candidates, i + 1)

Returned(v) == [raised |-> "", value |-> v]
Raised(exc) == [raised |-> exc, value |-> None]
NoCall == Returned(None)

\* The for loop over the environment variables (lines 82-85).
LcvEnv ==
    /\ pc = "lcv_env"
    /\ LET val == EnvLookup(env, env_map(key), 1)
       IN  IF val # None
           THEN /\ ret' = Returned(val)
                /\ pc' = "lcv_done"
           ELSE /\ ret' = ret
                /\ pc' = "lcv_open"
    /\ UNCHANGED <<world, key, fh_open, file_opens, clock_reads, uuid_calls, locals,
                   stdout, stderr, exit_status, invocation, prev>>

\* A variant of LcvOpen without lines 94-95: the FileNotFoundError of a
\* missing file leaves load_config_value.
LcvOpenMissingRaises ==
    /\ pc = "lcv_open"
    /\ CASE file.kind = "missing" ->
              /\ ret' = Raised("FileNotFoundError")
              /\ pc' = "lcv_done"
              /\ UNCHANGED <<fh_open, file_opens>>
         [] file.kind = "unreadable" ->
              /\ ret' = Raised("PermissionError")
              /\ pc' = "lcv_done"
              /\ UNCHANGED <<fh_open, file_opens>>
         [] OTHER ->
              /\ fh_open' = TRUE
              /\ file_opens' = file_opens + 1
              /\ pc' = "lcv_read"
              /\ ret' = ret
    /\ UNCHANGED <<world, key, clock_reads, uuid_calls, locals,
                   stdout, stderr, exit_status, invocation, prev>>

\* open("config/default.toml", "rb") (line 89); FileNotFoundError is caught
\* (lines 94-95) and the function returns None (line 97).
LcvOpen ==
    /\ pc = "lcv_open"
    /\ CASE file.kind = "missing" ->
              /\ ret' = Returned(None)
              /\ pc' = "lcv_done"
              /\ UNCHANGED <<fh_open, file_opens>>
         [] file.kind = "unreadable" ->
              /\ ret' = Raised("PermissionError")
              /\ pc' = "lcv_done"
              /\ UNCHANGED <<fh_open, file_opens>>
         [] OTHER ->
              /\ fh_open' = TRUE
              /\ file_opens' = file_opens + 1
              /\ pc' = "lcv_read"
              /\ ret' = ret
    /\ UNCHANGED <<world, key, clock_reads, uuid_calls, locals,
                   stdout, stderr, exit_status, invocation, prev>>

\* A variant of LcvRead without the with-block: fh.close() is reached only
\* when the key is missing, not on `return str(val)` nor when tomllib.load
\* raises.
LcvReadCloseAtEnd ==
    /\ pc = "lcv_read"
    /\ fh_open' = (file.kind = "invalid" \/ file.table[key] # None)
    /\ pc' = "lcv_done"
    /\ IF file.kind = "invalid"
       THEN ret' = Raised("TOMLDecodeError")
       ELSE LET val == file.table[key]
                text == IF val # None THEN PyStr(val[1]) ELSE PyStr(TomlStr(<<>>))
            IN  ret' = IF val = None THEN Returned(None)
                       ELSE IF text.ok THEN Returned(Some(text.s))
                       ELSE Raised("ValueError")
    /\ UNCHANGED <<world, key, file_opens, clock_reads, uuid_calls, locals,
                   stdout, stderr, exit_status, invocation, prev>>

\* cfg = tomllib.load(fh); val = cfg.get(key); return str(val) unless it is
\* None (lines 90-93, 97).  Leaving the with-block closes the file, also when
\* tomllib.load raises, or str(val) does (an int of too many digits).
LcvRead ==
    /\ pc = "lcv_read"
    /\ fh_open' = FALSE
    /\ pc' = "lcv_done"
    /\ IF file.kind = "invalid"
       THEN ret' = Raised("TOMLDecodeError")
       ELSE LET val == file.table[key]
                text == IF val # None THEN PyStr(val[1]) ELSE PyStr(TomlStr(<<>>))
            IN  ret' = IF val = None THEN Returned(None)
                       ELSE IF text.ok THEN Returned(Some(text.s))
                       ELSE Raised("ValueError")
    /\ UNCHANGED <<world, key, file_opens, clock_reads, uuid_calls, locals,
                   stdout, stderr, exit_status, invocation, prev>>

-----------------------------------------------------------------------------
(* The encoders: str.encode(), json.dumps, base64.urlsafe_b64encode.       *)

\* s.encode(): UTF-8 of a str whose code points are below 256.
Utf8Encode(s) ==
    LET RECURSIVE Chars(_)
        Chars(t) ==
            IF t = <<>> THEN <<>>
            ELSE (IF t[1] < 128 THEN <<t[1]>>
                  ELSE <<192 + (t[1] \div 64), 128 + (t[1] % 64)>>)
                 \o Chars(Tail(t))
    IN  IF \A i \in 1..Len(s) : s[i] < 128 THEN s ELSE Chars(s)

\* b.decode(): the str of UTF-8 bytes that encode code points below 256.
Utf8Decode(b) ==
    LET RECURSIVE Bytes(_)
        Bytes(t) ==
            IF t = <<>> THEN <<>>
            ELSE IF t[1] < 128 THEN <<t[1]>> \o Bytes(Tail(t))
            ELSE <<(t[1] - 192) * 64 + (t[2] - 128)>> \o Bytes(Tail(Tail(t)))
    IN  IF \A i \in 1..Len(b) : b[i] < 128 THEN b ELSE Bytes(b)

\* "0123456789abcdef"
Hex2(b) ==
    LET HEX_DIGITS == <<48, 49, 50, 51, 52, 53, 54, 55, 56, 57, 97, 98, 99, 100, 101, 102>>
    IN  <<HEX_DIGITS[(b \div 16) + 1], HEX_DIGITS[(b % 16) + 1]>>

\* str(u) of a uuid.UUID u given by its 16 bytes: 8-4-4-4-12 hex digits.
RECURSIVE UuidHex(_, _)
UuidHex(u, i) ==
    IF i > Len(u) THEN <<>>
    ELSE (IF i \in {5, 7, 9, 11} THEN <<45>> ELSE <<>>) \o Hex2(u[i]) \o UuidHex(u, i + 1)
UuidToStr(u) == UuidHex(u, 1)

\* JSON values: str, int, None and list.
JStr(s) == [t |-> "str", s |-> s, n |-> PyInt(0), items |-> <<>>]
JInt(n) == [t |-> "int", s |-> <<>>, n |-> n, items |-> <<>>]
JNull == [t |-> "null", s |-> <<>>, n |-> PyInt(0), items |-> <<>>]
JList(items) == [t |-> "list", s |-> <<>>, n |-> PyInt(0), items |-> items]

\* One character of a str inside a JSON string literal (ensure_ascii=True).
JsonChar(c) ==
    CASE c = 34 -> <<92, 34>>
      [] c = 92 -> <<92, 92>>
      [] c = 10 -> <<92, 110>>
      [] c = 13 -> <<92, 114>>
      [] c = 9 -> <<92, 116>>
      [] c = 12 -> <<92, 102>>
      [] c = 8 -> <<92, 98>>
      [] c >= 32 /\ c <= 126 -> <<c>>
      [] OTHER -> <<92, 117, 48, 48>> \o Hex2(c)

\* The characters lo..hi of s, each as JsonChar writes it.
RECURSIVE JsonChars(_, _, _)
JsonChars(s, lo, hi) ==
    IF lo > hi THEN <<>>
    ELSE IF lo = hi THEN JsonChar(s[lo])
    ELSE JsonChars(s, lo, (lo + hi) \div 2) \o JsonChars(s, ((lo + hi) \div 2) + 1, hi)
JsonString(s) == <<34>> \o JsonChars(s, 1, Len(s)) \o <<34>>

\* a < b for two str values (code point order), the order sort_keys uses.
RECURSIVE StrLess(_, _)
StrLess(a, b) ==
    IF b = <<>> THEN FALSE
    ELSE IF a = <<>> THEN TRUE
    ELSE IF a[1] # b[1] THEN a[1] < b[1]
    ELSE StrLess(Tail(a), Tail(b))

\* sorted(dict.items()) for a dict given as its <<key, value>> pairs.
RECURSIVE InsertItem(_, _)
InsertItem(item, sorted) ==
    IF sorted = <<>> THEN <<item>>
    ELSE IF StrLess(item[1], sorted[1][1]) THEN <<item>> \o sorted
    ELSE <<sorted[1]>> \o InsertItem(item, Tail(sorted))

RECURSIVE SortItems(_)
SortItems(items) ==
    IF items = <<>> THEN <<>>
    ELSE InsertItem(items[Len(items)], SortItems(SubSeq(items, 1, Len(items) - 1)))

\* The outcome of producing text: the text, or [ok |-> FALSE] for the
\* ValueError of an int of too many digits.  Cat is the text of a followed
\* by the text of b, when both are there.
Text(t) == [ok |-> TRUE, s |-> t]
Cat(a, b) == IF a.ok /\ b.ok THEN Text(a.s \o b.s) ELSE [ok |-> FALSE, s |-> <<>>]

\* json.dumps(v, separators=(",", ":")) for a value that is no dict; an int
\* is written by its repr, which is str(int).
RECURSIVE JsonValue(_)
\* The items lo..hi of a list, each after a comma but the first of all.
RECURSIVE JsonList(_, _, _)
JsonList(items, lo, hi) ==
    IF lo > hi THEN Text(<<>>)
    ELSE IF lo = hi
    THEN Cat(Text(IF lo > 1 THEN <<44>> ELSE <<>>), JsonValue(items[lo]))
    ELSE Cat(JsonList(items, lo, (lo + hi) \div 2),
             JsonList(items, ((lo + hi) \div 2) + 1, hi))
JsonValue(v) ==
    CASE v.t = "str" -> Text(JsonString(v.s))
      [] v.t = "int" -> IntToStr(v.n)
      [] v.t = "null" -> Text(<<110, 117, 108, 108>>)
      [] v.t = "list" ->
           Cat(Cat(Text(<<91>>), JsonList(v.items, 1, Len(v.items))), Text(<<93>>))

\* The members lo..hi of a dict given as its <<key, value>> pairs, each
\* after a comma but the first of all.
RECURSIVE JsonMembers(_, _, _)
JsonMembers(items, lo, hi) ==
    IF lo > hi THEN Text(<<>>)
    ELSE IF lo = hi
    THEN Cat(Text((IF lo > 1 THEN <<44>> ELSE <<>>) \o JsonString(items[lo][1]) \o <<58>>),
             JsonValue(items[lo][2]))
    ELSE Cat(JsonMembers(items, lo, (lo + hi) \div 2),
             JsonMembers(items, ((lo + hi) \div 2) + 1, hi))

\* A variant of json_dumps without sort_keys=True: the members in the
\* dict's insertion order.
json_dumps_insertion_order(d) ==
    Cat(Cat(Text(<<123>>), JsonMembers(d, 1, Len(d))), Text(<<125>>))

\* A variant of json_dumps: members whose value is None are left out.
json_dumps_skip_null(d) ==
    LET items == SortItems(SelectSeq(d, LAMBDA it : it[2].t # "null"))
    IN  Cat(Cat(Text(<<123>>), JsonMembers(items, 1, Len(items))), Text(<<125>>))

\* json.dumps(d, separators=(",", ":"), sort_keys=True) for a dict d given as
\* its <<key, value>> pairs in insertion order.
json_dumps(d) ==
    LET items == SortItems(d)
    IN  Cat(Cat(Text(<<123>>), JsonMembers(items, 1, Len(items))), Text(<<125>>))

\* The k-th character of the base64 encoding of data: groups of three bytes
\* give four sextets; a missing byte counts as 0 and the sextets it alone
\* fills are written as '='.
B64Char(data, k) ==
    LET \* the URL-safe alphabet: A-Z a-z 0-9 - _
        B64_URLSAFE ==
            <<65, 66, 67, 68, 69, 70, 71, 72, 73, 74, 75, 76, 77, 78, 79, 80, 81, 82, 83, 84, 85,
            86, 87, 88, 89, 90, 97, 98, 99, 100, 101, 102, 103, 104, 105, 106, 107, 108, 109,
            110, 111, 112, 113, 114, 115, 116, 117, 118, 119, 120, 121, 122, 48, 49, 50, 51,
            52, 53, 54, 55, 56, 57, 45, 95>>
        g == (k - 1) \div 4
        p == (k - 1) % 4
        n == Len(data)
        b1 == data[3 * g + 1]
        b2 == IF 3 * g + 2 <= n THEN data[3 * g + 2] ELSE 0
        b3 == IF 3 * g + 3 <= n THEN data[3 * g + 3] ELSE 0
        sextet == CASE p = 0 -> b1 \div 4
                    [] p = 1 -> (b1 % 4) * 16 + (b2 \div 16)
                    [] p = 2 -> (b2 % 16) * 4 + (b3 \div 64)
                    [] p = 3 -> b3 % 64
    IN  IF (p = 2 /\ 3 * g + 2 > n) \/ (p = 3 /\ 3 * g + 3 > n) THEN 61
        ELSE B64_URLSAFE[sextet + 1]

\* base64.urlsafe_b64encode(data)
urlsafe_b64encode(data) ==
    [k \in 1..(4 * ((Len(data) + 2) \div 3)) |-> B64Char(data, k)] \o <<>>

\* b.rstrip(b"=")
RECURSIVE RStripEq(_)
RStripEq(b) ==
    IF b # <<>> /\ b[Len(b)] = 61 THEN RStripEq(SubSeq(b, 1, Len(b) - 1)) ELSE b

\* A variant of b64url: the padding is kept.
b64url_padded(data) == urlsafe_b64encode(data)

\* b64url(data), lines 100-101
b64url(data) == RStripEq(urlsafe_b64encode(data))

-----------------------------------------------------------------------------
(* hmac.new(key, msg, digestmod=hashlib.sha256).digest(): HMAC (RFC 2104)  *)
(* over SHA-256 (FIPS 180-4).  A 32-bit word is <<high 16 bits, low 16     *)
(* bits>>.                                                                 *)

RECURSIVE BitXor(_, _, _)
BitXor(a, b, bits) ==
    IF bits = 0 THEN 0
    ELSE (((a % 2) + (b % 2)) % 2) + 2 * BitXor(a \div 2, b \div 2, bits - 1)

\* a XOR b for bytes, tabulated
XorTable == [a \in 0..255 |-> [b \in 0..255 |-> BitXor(a, b, 8)]]

Xor16(a, b) == XorTable[a \div 256][b \div 256] * 256 + XorTable[a % 256][b % 256]
\* a AND b, from a + b = (a XOR b) + 2 * (a AND b)
And16(a, b) == (a + b - Xor16(a, b)) \div 2
Xor32(a, b) == <<Xor16(a[1], b[1]), Xor16(a[2], b[2])>>
And32(a, b) == <<And16(a[1], b[1]), And16(a[2], b[2])>>

Add32(a, b) ==
    LET lo == a[2] + b[2]
    IN  <<(a[1] + b[1] + (lo \div 65536)) % 65536, lo % 65536>>

Pow2 == <<2, 4, 8, 16, 32, 64, 128, 256, 512, 1024, 2048, 4096, 8192, 16384, 32768>>

\* a rotated right by n bits, 0 < n < 32
RotrLow(a, n) ==
    LET p == Pow2[n]
        q == Pow2[16 - n]
    IN  <<(a[1] \div p) + (a[2] % p) * q, (a[2] \div p) + (a[1] % p) * q>>
Rotr(a, n) ==
    IF n < 16 THEN RotrLow(a, n)
    ELSE IF n = 16 THEN <<a[2], a[1]>>
    ELSE RotrLow(<<a[2], a[1]>>, n - 16)

\* a shifted right by n bits, 0 < n < 16
Shr(a, n) ==
    LET p == Pow2[n]
        q == Pow2[16 - n]
    IN  <<a[1] \div p, (a[2] \div p) + (a[1] % p) * q>>

BigSigma0(a) == Xor32(Xor32(Rotr(a, 2), Rotr(a, 13)), Rotr(a, 22))
BigSigma1(a) == Xor32(Xor32(Rotr(a, 6), Rotr(a, 11)), Rotr(a, 25))
SmallSigma0(a) == Xor32(Xor32(Rotr(a, 7), Rotr(a, 18)), Shr(a, 3))
SmallSigma1(a) == Xor32(Xor32(Rotr(a, 17), Rotr(a, 19)), Shr(a, 10))
\* Ch(e, f, g) = (e AND f) XOR (NOT e AND g); Maj(a, b, c) = majority bit
Ch(e, f, g) == Xor32(g, And32(e, Xor32(f, g)))
Maj(a, b, c) == Xor32(And32(a, b), And32(c, Xor32(a, b)))

SHA256_K ==
    <<<<17034, 12184>>, <<28983, 17553>>, <<46528, 64463>>, <<59829, 56229>>,
      <<14678, 49755>>, <<23025, 4593>>, <<37439, 33444>>, <<43804, 24277>>,
      <<55303, 43672>>, <<4739, 23297>>, <<9265, 34238>>, <<21772, 32195>>,
      <<29374, 23924>>, <<32990, 45566>>, <<39900, 1703>>, <<49563, 61812>>,
      <<58523, 27073>>, <<61374, 18310>>, <<4033, 40390>>, <<9228, 41420>>,
      <<11753, 11375>>, <<19060, 33962>>, <<23728, 43484>>, <<30457, 35034>>,
      <<38974, 20818>>, <<43057, 50797>>, <<45059, 10184>>, <<48985, 32711>>,
      <<50912, 3059>>, <<54695, 37191>>, <<1738, 25425>>, <<5161, 10599>>,
      <<10167, 2693>>, <<11803, 8504>>, <<19756, 28156>>, <<21304, 3347>>,
      <<25866, 29524>>, <<30314, 2747>>, <<33218, 51502>>, <<37490, 11397>>,
      <<41663, 59553>>, <<43034, 26187>>, <<49739, 35696>>, <<51052, 20899>>,
      <<53650, 59417>>, <<54937, 1572>>, <<62478, 13701>>, <<4202, 41072>>,
      <<6564, 49430>>, <<7735, 27656>>, <<10056, 30540>>, <<13488, 48309>>,
      <<14620, 3251>>, <<20184, 43594>>, <<23452, 51791>>, <<26670, 28659>>,
      <<29839, 33518>>, <<30885, 25455>>, <<33992, 30740>>, <<36039, 520>>,
      <<37054, 65530>>, <<42064, 27883>>, <<48889, 41975>>, <<50801, 30962>>>>
SHA256_H0 ==
    <<<<27145, 58983>>, <<47975, 44677>>, <<15470, 62322>>, <<42319, 62778>>,
      <<20750, 21119>>, <<39685, 26764>>, <<8067, 55723>>, <<23520, 52505>>>>

\* The message schedule: 16 words of the block extended to 64.
RECURSIVE Schedule(_)
Schedule(W) ==
    IF Len(W) = 64 THEN W
    ELSE LET t == Len(W) + 1
         IN  Schedule(Append(W, Add32(Add32(SmallSigma1(W[t - 2]), W[t - 7]),
                                      Add32(SmallSigma0(W[t - 15]), W[t - 16]))))

\* Rounds t..64 on the working variables s = <<a, b, c, d, e, f, g, h>>.
\* (Len(s) is asked for so that s is evaluated round by round.)
RECURSIVE Rounds(_, _, _)
Rounds(s, W, t) ==
    IF t > 64 \/ Len(s) # 8 THEN s
    ELSE LET T1 == Add32(Add32(Add32(s[8], BigSigma1(s[5])),
                               Add32(Ch(s[5], s[6], s[7]), SHA256_K[t])), W[t])
             T2 == Add32(BigSigma0(s[1]), Maj(s[1], s[2], s[3]))
         IN  Rounds(<<Add32(T1, T2), s[1], s[2], s[3], Add32(s[4], T1), s[5], s[6], s[7]>>,
                    W, t + 1)

\* The compression function on one 64-byte block.
Compress(h, block) ==
    LET W0 == [i \in 1..16 |-> <<block[4 * i - 3] * 256 + block[4 * i - 2],
                                 block[4 * i - 1] * 256 + block[4 * i]>>]
        s == Rounds(h, Schedule(W0), 1)
    IN  [i \in 1..8 |-> Add32(h[i], s[i])] \o <<>>

\* The message, the byte 0x80, zeros, and the bit length in 8 bytes.
Sha256Pad(msg) ==
    LET n == Len(msg)
        bits == n * 8
    IN  msg \o <<128>> \o [i \in 1..((119 - (n % 64)) % 64) |-> 0]
            \o <<0, 0, 0, 0, bits \div 16777216, (bits \div 65536) % 256,
                 (bits \div 256) % 256, bits % 256>>

RECURSIVE HashBlocks(_, _, _)
HashBlocks(h, m, i) ==
    IF i > Len(m) \/ Len(h) # 8 THEN h
    ELSE HashBlocks(Compress(h, SubSeq(m, i, i + 63)), m, i + 64)

\* The k-th byte of the big-endian bytes of the words h.
WordsByte(h, k) ==
    LET half == h[((k - 1) \div 4) + 1][(((k - 1) % 4) \div 2) + 1]
    IN  IF k % 2 = 1 THEN half \div 256 ELSE half % 256
WordsBytes(h) == [k \in 1..(4 * Len(h)) |-> WordsByte(h, k)] \o <<>>

\* hashlib.sha256(msg).digest()
Sha256(msg) == WordsBytes(HashBlocks(SHA256_H0, Sha256Pad(msg), 1))

\* The key as one block: hashed when longer than a block, then zero-padded.
ZeroPad(b) == b \o [i \in 1..(64 - Len(b)) |-> 0]
KeyBlock(k) == ZeroPad(IF Len(k) > 64 THEN Sha256(k) ELSE k)

\* Every byte of the block XOR the pad byte.
XorPad(block, pad) == [i \in 1..64 |-> XorTable[block[i]][pad]] \o <<>>

\* H((K XOR opad) + H((K XOR ipad) + msg)), ipad = 0x36, opad = 0x5c
HmacOfBlock(kb, msg) == Sha256(XorPad(kb, 92) \o Sha256(XorPad(kb, 54) \o msg))

\* hmac.new(k, msg, digestmod=hashlib.sha256).digest()
hmac_sha256(k, msg) == HmacOfBlock(KeyBlock(k), msg)

-----------------------------------------------------------------------------
(* The constants of the script.                                            *)

\* A variant of DEFAULT_PERMISSIONS: the work orders have their four actions
\* and no wildcard entry.
PERMISSIONS_NO_WORKORDERS_WILDCARD ==
    <<
      <<111, 114, 100, 101, 114, 115, 58, 114, 101, 97, 100>>,  \* orders:read
      <<111, 114, 100, 101, 114, 115, 58, 99, 114, 101, 97, 116, 101>>,  \* orders:create
      <<111, 114, 100, 101, 114, 115, 58, 117, 112, 100, 97, 116, 101>>,  \* orders:update
      <<111, 114, 100, 101, 114, 115, 58, 100, 101, 108, 101, 116, 101>>,  \* orders:delete
      <<111, 114, 100, 101, 114, 115, 58, 99, 97, 110, 99, 101, 108>>,  \* orders:cancel
      <<111, 114, 100, 101, 114, 115, 58, 42>>,  \* orders:*
      <<105, 110, 118, 101, 110, 116, 111, 114, 121, 58, 114, 101, 97, 100>>,  \* inventory:read
      <<105, 110, 118, 101, 110, 116, 111, 114, 121, 58, 97, 100, 106, 117, 115, 116>>,  \* inventory:adjust
      <<105, 110, 118, 101, 110, 116, 111, 114, 121, 58, 116, 114, 97, 110, 115, 102, 101, 114>>,  \* inventory:transfer
      <<105, 110, 118, 101, 110, 116, 111, 114, 121, 58, 42>>,  \* inventory:*
      <<114, 101, 116, 117, 114, 110, 115, 58, 114, 101, 97, 100>>,  \* returns:read
      <<114, 101, 116, 117, 114, 110, 115, 58, 99, 114, 101, 97, 116, 101>>,  \* returns:create
      <<114, 101, 116, 117, 114, 110, 115, 58, 97, 112, 112, 114, 111, 118, 101>>,  \* returns:approve
      <<114, 101, 116, 117, 114, 110, 115, 58, 114, 101, 106, 101, 99, 116>>,  \* returns:reject
      <<114, 101, 116, 117, 114, 110, 115, 58, 42>>,  \* returns:*
      <<115, 104, 105, 112, 109, 101, 110, 116, 115, 58, 114, 101, 97, 100>>,  \* shipments:read
      <<115, 104, 105, 112, 109, 101, 110, 116, 115, 58, 99, 114, 101, 97, 116, 101>>,  \* shipments:create
      <<115, 104, 105, 112, 109, 101, 110, 116, 115, 58, 117, 112, 100, 97, 116, 101>>,  \* shipments:update
      <<115, 104, 105, 112, 109, 101, 110, 116, 115, 58, 100, 101, 108, 101, 116, 101>>,  \* shipments:delete
      <<115, 104, 105, 112, 109, 101, 110, 116, 115, 58, 42>>,  \* shipments:*
      <<119, 97, 114, 114, 97, 110, 116, 105, 101, 115, 58, 114, 101, 97, 100>>,  \* warranties:read
      <<119, 97, 114, 114, 97, 110, 116, 105, 101, 115, 58, 99, 114, 101, 97, 116, 101>>,  \* warranties:create
      <<119, 97, 114, 114, 97, 110, 116, 105, 101, 115, 58, 117, 112, 100, 97, 116, 101>>,  \* warranties:update
      <<119, 97, 114, 114, 97, 110, 116, 105, 101, 115, 58, 100, 101, 108, 101, 116, 101>>,  \* warranties:delete
      <<119, 97, 114, 114, 97, 110, 116, 105, 101, 115, 58, 42>>,  \* warranties:*
      <<119, 111, 114, 107, 111, 114, 100, 101, 114, 115, 58, 114, 101, 97, 100>>,  \* workorders:read
      <<119, 111, 114, 107, 111, 114, 100, 101, 114, 115, 58, 99, 114, 101, 97, 116, 101>>,  \* workorders:create
      <<119, 111, 114, 107, 111, 114, 100, 101, 114, 115, 58, 117, 112, 100, 97, 116, 101>>,  \* workorders:update
      <<119, 111, 114, 107, 111, 114, 100, 101, 114, 115, 58, 100, 101, 108, 101, 116, 101>>,  \* workorders:delete
      <<97, 100, 109, 105, 110, 58, 111, 117, 116, 98, 111, 120>>,  \* admin:outbox
      <<112, 97, 121, 109, 101, 110, 116, 115, 58, 97, 99, 99, 101, 115, 115>>,  \* payments:access
      <<97, 103, 101, 110, 116, 115, 58, 97, 99, 99, 101, 115, 115>>  \* agents:access
    >>

\* DEFAULT_PERMISSIONS, lines 32-73
DEFAULT_PERMISSIONS ==
    <<
      <<111, 114, 100, 101, 114, 115, 58, 114, 101, 97, 100>>,  \* orders:read
      <<111, 114, 100, 101, 114, 115, 58, 99, 114, 101, 97, 116, 101>>,  \* orders:create
      <<111, 114, 100, 101, 114, 115, 58, 117, 112, 100, 97, 116, 101>>,  \* orders:update
      <<111, 114, 100, 101, 114, 115, 58, 100, 101, 108, 101, 116, 101>>,  \* orders:delete
      <<111, 114, 100, 101, 114, 115, 58, 99, 97, 110, 99, 101, 108>>,  \* orders:cancel
      <<111, 114, 100, 101, 114, 115, 58, 42>>,  \* orders:*
      <<105, 110, 118, 101, 110, 116, 111, 114, 121, 58, 114, 101, 97, 100>>,  \* inventory:read
      <<105, 110, 118, 101, 110, 116, 111, 114, 121, 58, 97, 100, 106, 117, 115, 116>>,  \* inventory:adjust
      <<105, 110, 118, 101, 110, 116, 111, 114, 121, 58, 116, 114, 97, 110, 115, 102, 101, 114>>,  \* inventory:transfer
      <<105, 110, 118, 101, 110, 116, 111, 114, 121, 58, 42>>,  \* inventory:*
      <<114, 101, 116, 117, 114, 110, 115, 58, 114, 101, 97, 100>>,  \* returns:read
      <<114, 101, 116, 117, 114, 110, 115, 58, 99, 114, 101, 97, 116, 101>>,  \* returns:create
      <<114, 101, 116, 117, 114, 110, 115, 58, 97, 112, 112, 114, 111, 118, 101>>,  \* returns:approve
      <<114, 101, 116, 117, 114, 110, 115, 58, 114, 101, 106, 101, 99, 116>>,  \* returns:reject
      <<114, 101, 116, 117, 114, 110, 115, 58, 42>>,  \* returns:*
      <<115, 104, 105, 112, 109, 101, 110, 116, 115, 58, 114, 101, 97, 100>>,  \* shipments:read
      <<115, 104, 105, 112, 109, 101, 110, 116, 115, 58, 99, 114, 101, 97, 116, 101>>,  \* shipments:create
      <<115, 104, 105, 112, 109, 101, 110, 116, 115, 58, 117, 112, 100, 97, 116, 101>>,  \* shipments:update
      <<115, 104, 105, 112, 109, 101, 110, 116, 115, 58, 100, 101, 108, 101, 116, 101>>,  \* shipments:delete
      <<115, 104, 105, 112, 109, 101, 110, 116, 115, 58, 42>>,  \* shipments:*
      <<119, 97, 114, 114, 97, 110, 116, 105, 101, 115, 58, 114, 101, 97, 100>>,  \* warranties:read
      <<119, 97, 114, 114, 97, 110, 116, 105, 101, 115, 58, 99, 114, 101, 97, 116, 101>>,  \* warranties:create
      <<119, 97, 114, 114, 97, 110, 116, 105, 101, 115, 58, 117, 112, 100, 97, 116, 101>>,  \* warranties:update
      <<119, 97, 114, 114, 97, 110, 116, 105, 101, 115, 58, 100, 101, 108, 101, 116, 101>>,  \* warranties:delete
      <<119, 97, 114, 114, 97, 110, 116, 105, 101, 115, 58, 42>>,  \* warranties:*
      <<119, 111, 114, 107, 111, 114, 100, 101, 114, 115, 58, 114, 101, 97, 100>>,  \* workorders:read
      <<119, 111, 114, 107, 111, 114, 100, 101, 114, 115, 58, 99, 114, 101, 97, 116, 101>>,  \* workorders:create
      <<119, 111, 114, 107, 111, 114, 100, 101, 114, 115, 58, 117, 112, 100, 97, 116, 101>>,  \* workorders:update
      <<119, 111, 114, 107, 111, 114, 100, 101, 114, 115, 58, 100, 101, 108, 101, 116, 101>>,  \* workorders:delete
      <<119, 111, 114, 107, 111, 114, 100, 101, 114, 115, 58, 42>>,  \* workorders:*
      <<97, 100, 109, 105, 110, 58, 111, 117, 116, 98, 111, 120>>,  \* admin:outbox
      <<112, 97, 121, 109, 101, 110, 116, 115, 58, 97, 99, 99, 101, 115, 115>>,  \* payments:access
      <<97, 103, 101, 110, 116, 115, 58, 97, 99, 99, 101, 115, 115>>  \* agents:access
    >>

\* The fallback lifetime of line 114 (line 112 holds it as the text "3600").
DEFAULT_EXP_SECONDS == 3600

\* The keys of the claims and of the header.
K_sub == <<115, 117, 98>>
K_name == <<110, 97, 109, 101>>
K_email == <<101, 109, 97, 105, 108>>
K_roles == <<114, 111, 108, 101, 115>>
K_permissions == <<112, 101, 114, 109, 105, 115, 115, 105, 111, 110, 115>>
K_tenant_id == <<116, 101, 110, 97, 110, 116, 95, 105, 100>>
K_jti == <<106, 116, 105>>
K_iat == <<105, 97, 116>>
K_exp == <<101, 120, 112>>
K_nbf == <<110, 98, 102>>
K_iss == <<105, 115, 115>>
K_aud == <<97, 117, 100>>
K_scope == <<115, 99, 111, 112, 101>>
K_alg == <<97, 108, 103>>
K_typ == <<116, 121, 112>>
\* "Local Admin", "admin@example.com", "admin", "stateset-auth", "stateset-api"
STR_LocalAdmin == <<76, 111, 99, 97, 108, 32, 65, 100, 109, 105, 110>>
STR_AdminEmail == <<97, 100, 109, 105, 110, 64, 101, 120, 97, 109, 112, 108, 101, 46, 99, 111, 109>>
STR_admin == <<97, 100, 109, 105, 110>>
STR_StatesetAuth == <<115, 116, 97, 116, 101, 115, 101, 116, 45, 97, 117, 116, 104>>
STR_StatesetApi == <<115, 116, 97, 116, 101, 115, 101, 116, 45, 97, 112, 105>>
\* "HS256", "JWT"
STR_HS256 == <<72, 83, 50, 53, 54>>
STR_JWT == <<74, 87, 84>>
\* "Generated admin JWT (valid for ", " seconds):\n", "\nUse it as:",
\* "Authorization: Bearer "
STR_Generated == <<71, 101, 110, 101, 114, 97, 116, 101, 100, 32, 97, 100, 109, 105, 110, 32, 74, 87, 84, 32, 40, 118, 97, 108, 105, 100, 32, 102, 111, 114, 32>>
STR_Seconds == <<32, 115, 101, 99, 111, 110, 100, 115, 41, 58, 10>>
STR_UseItAs == <<10, 85, 115, 101, 32, 105, 116, 32, 97, 115, 58>>
STR_AuthBearer == <<65, 117, 116, 104, 111, 114, 105, 122, 97, 116, 105, 111, 110, 58, 32, 66, 101, 97, 114, 101, 114, 32>>

-----------------------------------------------------------------------------
(* main(), lines 104-154, and sys.exit(main()), line 158.                  *)

\* except ValueError (line 113) catches tomllib.TOMLDecodeError, a subclass
\* of ValueError; PermissionError is an OSError and is not caught.
IsValueError(exc) == exc \in {"ValueError", "TOMLDecodeError"}

\* The files a traceback names: the script, by its absolute path in the
\* checkout that `python3 scripts/dev_admin_token.py` is run in, and the
\* modules of the standard library (lines 20 and 27 import them), by
\* their path in the interpreter's library.
\* "/srv/stateset-api/scripts/dev_admin_token.py"
SCRIPT_FILE ==
    <<47, 115, 114, 118, 47, 115, 116, 97, 116, 101, 115, 101, 116, 45, 97, 112, 105, 47,
      115, 99, 114, 105, 112, 116, 115, 47, 100, 101, 118, 95, 97, 100, 109, 105, 110, 95,
      116, 111, 107, 101, 110, 46, 112, 121>>

\* The lines of one frame, as CPython 3.11 prints them: the place, the source
\* line, and n carets from column col under the call that raised (none
\* under a raise statement).
FrameLines(f) ==
    <<<<32, 32, 70, 105, 108, 101, 32, 34>> \o f.file              \* `  File "`
        \o <<34, 44, 32, 108, 105, 110, 101, 32>> \o NatToStr(f.line)  \* `", line `
        \o <<44, 32, 105, 110, 32>> \o f.func,                      \* `, in `
      <<32, 32, 32, 32>> \o f.code>>
    \o (IF f.n = 0 THEN <<>>
        ELSE <<[i \in 1..(4 + f.col) |-> 32] \o [i \in 1..f.n |-> 94]>>)

\* The frames from sys.exit(main()) down to the call that raised exc, main()
\* being at the given line (105, 112 or 138): open() refused (line 89),
\* tomllib.load() on the document of FileInvalid (line 90), str(val) on an
\* int of too many digits (line 93), or json.dumps() on one (line 138).
FramesOf(exc, line) ==
    LET \* "/usr/local/lib/python3.11/"
        PY_LIB ==
            <<47, 117, 115, 114, 47, 108, 111, 99, 97, 108, 47, 108, 105, 98, 47, 112, 121,
              116, 104, 111, 110, 51, 46, 49, 49, 47>>
        \* "tomllib/_parser.py", "json/__init__.py", "json/encoder.py"
        TOMLLIB_PARSER == <<116, 111, 109, 108, 108, 105, 98, 47, 95, 112, 97, 114, 115, 101, 114, 46, 112,
          121>>
        JSON_INIT == <<106, 115, 111, 110, 47, 95, 95, 105, 110, 105, 116, 95, 95, 46, 112, 121>>
        JSON_ENCODER == <<106, 115, 111, 110, 47, 101, 110, 99, 111, 100, 101, 114, 46, 112, 121>>
        module == [file |-> SCRIPT_FILE, line |-> 158, col |-> 9, n |-> 6,
           \* <module>
           func |-> <<60, 109, 111, 100, 117, 108, 101, 62>>,
           \* sys.exit(main())
           code |-> <<115, 121, 115, 46, 101, 120, 105, 116, 40, 109, 97, 105, 110, 40, 41,
                     41>>]
        main_secret == [file |-> SCRIPT_FILE, line |-> 105, col |-> 9, n |-> 31,
           \* main
           func |-> <<109, 97, 105, 110>>,
           \* secret = load_config_value("jwt_secret")
           code |-> <<115, 101, 99, 114, 101, 116, 32, 61, 32, 108, 111, 97, 100, 95, 99,
                     111, 110, 102, 105, 103, 95, 118, 97, 108, 117, 101, 40, 34, 106, 119,
                     116, 95, 115, 101, 99, 114, 101, 116, 34, 41>>]
        main_lifetime == [file |-> SCRIPT_FILE, line |-> 112, col |-> 18, n |-> 35,
           \* main
           func |-> <<109, 97, 105, 110>>,
           \* exp_seconds = int(load_config_value("jwt_expiration") or "3600")
           code |-> <<101, 120, 112, 95, 115, 101, 99, 111, 110, 100, 115, 32, 61, 32, 105,
                     110, 116, 40, 108, 111, 97, 100, 95, 99, 111, 110, 102, 105, 103, 95,
                     118, 97, 108, 117, 101, 40, 34, 106, 119, 116, 95, 101, 120, 112, 105,
                     114, 97, 116, 105, 111, 110, 34, 41, 32, 111, 114, 32, 34, 51, 54, 48,
                     48, 34, 41>>]
        main_payload == [file |-> SCRIPT_FILE, line |-> 138, col |-> 21, n |-> 57,
           \* main
           func |-> <<109, 97, 105, 110>>,
           \* payload_b64 = b64url(json.dumps(claims, separators=(",", ":"), sort_keys=True).encode())
           code |-> <<112, 97, 121, 108, 111, 97, 100, 95, 98, 54, 52, 32, 61, 32, 98, 54,
                     52, 117, 114, 108, 40, 106, 115, 111, 110, 46, 100, 117, 109, 112, 115,
                     40, 99, 108, 97, 105, 109, 115, 44, 32, 115, 101, 112, 97, 114, 97,
                     116, 111, 114, 115, 61, 40, 34, 44, 34, 44, 32, 34, 58, 34, 41, 44, 32,
                     115, 111, 114, 116, 95, 107, 101, 121, 115, 61, 84, 114, 117, 101, 41,
                     46, 101, 110, 99, 111, 100, 101, 40, 41, 41>>]
        at_open == [file |-> SCRIPT_FILE, line |-> 89, col |-> 5, n |-> 33,
           \* load_config_value
           func |-> <<108, 111, 97, 100, 95, 99, 111, 110, 102, 105, 103, 95, 118, 97, 108,
                     117, 101>>,
           \* with open("config/default.toml", "rb") as fh:
           code |-> <<119, 105, 116, 104, 32, 111, 112, 101, 110, 40, 34, 99, 111, 110, 102,
                     105, 103, 47, 100, 101, 102, 97, 117, 108, 116, 46, 116, 111, 109, 108,
                     34, 44, 32, 34, 114, 98, 34, 41, 32, 97, 115, 32, 102, 104, 58>>]
        at_load == [file |-> SCRIPT_FILE, line |-> 90, col |-> 6, n |-> 16,
           \* load_config_value
           func |-> <<108, 111, 97, 100, 95, 99, 111, 110, 102, 105, 103, 95, 118, 97, 108,
                     117, 101>>,
           \* cfg = tomllib.load(fh)
           code |-> <<99, 102, 103, 32, 61, 32, 116, 111, 109, 108, 108, 105, 98, 46, 108,
                     111, 97, 100, 40, 102, 104, 41>>]
        at_return == [file |-> SCRIPT_FILE, line |-> 93, col |-> 7, n |-> 8,
           \* load_config_value
           func |-> <<108, 111, 97, 100, 95, 99, 111, 110, 102, 105, 103, 95, 118, 97, 108,
                     117, 101>>,
           \* return str(val)
           code |-> <<114, 101, 116, 117, 114, 110, 32, 115, 116, 114, 40, 118, 97, 108, 41>>]
        in_tomllib ==
              <<[file |-> PY_LIB \o TOMLLIB_PARSER, line |-> 66, col |-> 7, n |-> 33,
           \* load
           func |-> <<108, 111, 97, 100>>,
           \* return loads(s, parse_float=parse_float)
           code |-> <<114, 101, 116, 117, 114, 110, 32, 108, 111, 97, 100, 115, 40, 115, 44,
                     32, 112, 97, 114, 115, 101, 95, 102, 108, 111, 97, 116, 61, 112, 97,
                     114, 115, 101, 95, 102, 108, 111, 97, 116, 41>>],
                [file |-> PY_LIB \o TOMLLIB_PARSER, line |-> 102, col |-> 6, n |-> 50,
           \* loads
           func |-> <<108, 111, 97, 100, 115>>,
           \* pos = key_value_rule(src, pos, out, header, parse_float)
           code |-> <<112, 111, 115, 32, 61, 32, 107, 101, 121, 95, 118, 97, 108, 117, 101,
                     95, 114, 117, 108, 101, 40, 115, 114, 99, 44, 32, 112, 111, 115, 44,
                     32, 111, 117, 116, 44, 32, 104, 101, 97, 100, 101, 114, 44, 32, 112,
                     97, 114, 115, 101, 95, 102, 108, 111, 97, 116, 41>>],
                [file |-> PY_LIB \o TOMLLIB_PARSER, line |-> 326, col |-> 18, n |-> 43,
           \* key_value_rule
           func |-> <<107, 101, 121, 95, 118, 97, 108, 117, 101, 95, 114, 117, 108, 101>>,
           \* pos, key, value = parse_key_value_pair(src, pos, parse_float)
           code |-> <<112, 111, 115, 44, 32, 107, 101, 121, 44, 32, 118, 97, 108, 117, 101,
                     32, 61, 32, 112, 97, 114, 115, 101, 95, 107, 101, 121, 95, 118, 97,
                     108, 117, 101, 95, 112, 97, 105, 114, 40, 115, 114, 99, 44, 32, 112,
                     111, 115, 44, 32, 112, 97, 114, 115, 101, 95, 102, 108, 111, 97, 116,
                     41>>],
                [file |-> PY_LIB \o TOMLLIB_PARSER, line |-> 369, col |-> 13, n |-> 34,
           \* parse_key_value_pair
           func |-> <<112, 97, 114, 115, 101, 95, 107, 101, 121, 95, 118, 97, 108, 117, 101,
                     95, 112, 97, 105, 114>>,
           \* pos, value = parse_value(src, pos, parse_float)
           code |-> <<112, 111, 115, 44, 32, 118, 97, 108, 117, 101, 32, 61, 32, 112, 97,
                     114, 115, 101, 95, 118, 97, 108, 117, 101, 40, 115, 114, 99, 44, 32,
                     112, 111, 115, 44, 32, 112, 97, 114, 115, 101, 95, 102, 108, 111, 97,
                     116, 41>>],
                [file |-> PY_LIB \o TOMLLIB_PARSER, line |-> 649, col |-> 0, n |-> 0,
           \* parse_value
           func |-> <<112, 97, 114, 115, 101, 95, 118, 97, 108, 117, 101>>,
           \* raise suffixed_err(src, pos, "Invalid value")
           code |-> <<114, 97, 105, 115, 101, 32, 115, 117, 102, 102, 105, 120, 101, 100, 95,
                     101, 114, 114, 40, 115, 114, 99, 44, 32, 112, 111, 115, 44, 32, 34, 73,
                     110, 118, 97, 108, 105, 100, 32, 118, 97, 108, 117, 101, 34, 41>>]>>
        in_json ==
              <<[file |-> PY_LIB \o JSON_INIT, line |-> 238, col |-> 6, n |-> 11,
           \* dumps
           func |-> <<100, 117, 109, 112, 115>>,
           \* **kw).encode(obj)
           code |-> <<42, 42, 107, 119, 41, 46, 101, 110, 99, 111, 100, 101, 40, 111, 98,
                     106, 41>>],
                [file |-> PY_LIB \o JSON_ENCODER, line |-> 200, col |-> 9, n |-> 34,
           \* encode
           func |-> <<101, 110, 99, 111, 100, 101>>,
           \* chunks = self.iterencode(o, _one_shot=True)
           code |-> <<99, 104, 117, 110, 107, 115, 32, 61, 32, 115, 101, 108, 102, 46, 105,
                     116, 101, 114, 101, 110, 99, 111, 100, 101, 40, 111, 44, 32, 95, 111,
                     110, 101, 95, 115, 104, 111, 116, 61, 84, 114, 117, 101, 41>>],
                [file |-> PY_LIB \o JSON_ENCODER, line |-> 258, col |-> 7, n |-> 17,
           \* iterencode
           func |-> <<105, 116, 101, 114, 101, 110, 99, 111, 100, 101>>,
           \* return _iterencode(o, 0)
           code |-> <<114, 101, 116, 117, 114, 110, 32, 95, 105, 116, 101, 114, 101, 110, 99,
                     111, 100, 101, 40, 111, 44, 32, 48, 41>>]>>
    IN  <<module,
          CASE line = 105 -> main_secret
            [] line = 112 -> main_lifetime
            [] line = 138 -> main_payload>>
        \o (CASE line = 138 -> in_json
              [] exc \in {"PermissionError", "FileNotFoundError"} -> <<at_open>>
              [] exc = "TOMLDecodeError" -> <<at_load>> \o in_tomllib
              [] exc = "ValueError" -> <<at_return>>)

\* The lines Python writes to stderr for an exception exc that leaves main()
\* from the given line.  (FileNotFoundError is caught at line 94 and leaves
\* main() only where that handler is taken away.)
TracebackOf(exc, line) ==
    LET RECURSIVE FramesLines(_)
        FramesLines(fs) ==
            IF fs = <<>> THEN <<>> ELSE FrameLines(Head(fs)) \o FramesLines(Tail(fs))
        \* "FileNotFoundError: [Errno 2] No such file or directory:
        \* 'config/default.toml'"
        MSG_FILE_NOT_FOUND ==
            <<70, 105, 108, 101, 78, 111, 116, 70, 111, 117, 110, 100, 69, 114, 114, 111,
              114, 58, 32, 91, 69, 114, 114, 110, 111, 32, 50, 93, 32, 78, 111, 32, 115,
              117, 99, 104, 32, 102, 105, 108, 101, 32, 111, 114, 32, 100, 105, 114, 101,
              99, 116, 111, 114, 121, 58, 32, 39, 99, 111, 110, 102, 105, 103, 47, 100,
              101, 102, 97, 117, 108, 116, 46, 116, 111, 109, 108, 39>>
    IN  <<MSG_TRACEBACK>>
        \o FramesLines(FramesOf(exc, line))
        \o <<CASE exc = "PermissionError" -> MSG_PERMISSION_ERROR
               [] exc = "FileNotFoundError" -> MSG_FILE_NOT_FOUND
               [] exc = "TOMLDecodeError" -> MSG_TOML_DECODE_ERROR
               [] exc = "ValueError" -> MSG_VALUE_ERROR>>

\* print(text): the text and a newline
PrintLn(text) == text \o <<10>>

\* A variant of CallSecret: main() begins with now = int(time.time()), before
\* it looks for the secret.
CallSecretClockFirst ==
    /\ pc = "start"
    /\ now' = PyInt(clock[clock_reads + 1].sec)
    /\ clock_reads' = clock_reads + 1
    /\ key' = "jwt_secret"
    /\ pc' = "lcv_env"
    /\ UNCHANGED <<world, ret, fh_open, file_opens, uuid_calls, secret, exp_seconds,
                   exp, claims, encoded, stdout, stderr, exit_status, invocation, prev>>

\* secret = load_config_value("jwt_secret"), line 105: the call
CallSecret ==
    /\ pc = "start"
    /\ key' = "jwt_secret"
    /\ pc' = "lcv_env"
    /\ UNCHANGED <<world, ret, fh_open, file_opens, clock_reads, uuid_calls, locals,
                   stdout, stderr, exit_status, invocation, prev>>

\* An exception of load_config_value that main() does not catch ends the
\* process: traceback on stderr, exit status 1.  Line 105 is outside the try;
\* the try of line 112 catches ValueError alone.
UncaughtException ==
    /\ pc = "lcv_done"
    /\ ret.raised # ""
    /\ ~(key = "jwt_expiration" /\ IsValueError(ret.raised))
    /\ stderr' = stderr \o TracebackOf(ret.raised, IF key = "jwt_secret" THEN 105 ELSE 112)
    /\ exit_status' = 1
    /\ pc' = "exited"
    /\ UNCHANGED <<world, key, ret, fh_open, file_opens, clock_reads, uuid_calls, locals,
                   stdout, invocation, prev>>

\* A variant of SecretMissing: a built-in development secret ("dev-secret")
\* takes the place of the missing one and main() goes on.
SecretDefaulted ==
    /\ pc = "lcv_done" /\ key = "jwt_secret" /\ ret.raised = ""
    /\ ~Truthy(ret.value)
    /\ secret' = Some(<<100, 101, 118, 45, 115, 101, 99, 114, 101, 116>>)
    /\ key' = "jwt_expiration"
    /\ pc' = "lcv_env"
    /\ UNCHANGED <<world, ret, fh_open, file_opens, clock_reads, uuid_calls,
                   exp_seconds, now, exp, claims, encoded, stdout, stderr, exit_status,
                   invocation, prev>>

\* A variant of SecretMissing: after the message main() tries again from
\* its first line, until a secret is there.
SecretMissingRetry ==
    /\ pc = "lcv_done" /\ key = "jwt_secret" /\ ret.raised = ""
    /\ ~Truthy(ret.value)
    /\ secret' = ret.value
    /\ stderr' = <<MSG_NO_SECRET>>
    /\ pc' = "start"
    /\ UNCHANGED <<world, key, ret, fh_open, file_opens, clock_reads, uuid_calls,
                   exp_seconds, now, exp, claims, encoded, stdout, exit_status,
                   invocation, prev>>

\* if not secret: print(..., file=sys.stderr); return 1 (lines 106-109)
SecretMissing ==
    /\ pc = "lcv_done" /\ key = "jwt_secret" /\ ret.raised = ""
    /\ ~Truthy(ret.value)
    /\ secret' = ret.value
    /\ stderr' = Append(stderr, MSG_NO_SECRET)
    /\ exit_status' = 1
    /\ pc' = "exited"
    /\ UNCHANGED <<world, key, ret, fh_open, file_opens, clock_reads, uuid_calls,
                   exp_seconds, now, exp, claims, encoded, stdout, invocation, prev>>

\* A variant of SecretFound: the secret found is exported to the environment
\* (os.environ["JWT_SECRET"] = secret) for later commands.
SecretFoundExported ==
    /\ pc = "lcv_done" /\ key = "jwt_secret" /\ ret.raised = ""
    /\ Truthy(ret.value)
    /\ secret' = ret.value
    /\ env' = [env EXCEPT !["JWT_SECRET"] = ret.value]
    /\ key' = "jwt_expiration"
    /\ pc' = "lcv_env"
    /\ UNCHANGED <<file, clock, rng, default_permissions, ret, fh_open, file_opens,
                   clock_reads, uuid_calls, exp_seconds, now, exp, claims, encoded,
                   stdout, stderr, exit_status, invocation, prev>>

\* A variant of SecretFound: line 106 as `if secret is None`, which lets the
\* empty string through.
SecretFoundUnlessNone ==
    /\ pc = "lcv_done" /\ key = "jwt_secret" /\ ret.raised = ""
    /\ ret.value # None
    /\ secret' = ret.value
    /\ key' = "jwt_expiration"
    /\ pc' = "lcv_env"
    /\ UNCHANGED <<world, ret, fh_open, file_opens, clock_reads, uuid_calls,
                   exp_seconds, now, exp, claims, encoded, stdout, stderr, exit_status,
                   invocation, prev>>

\* The secret is there (line 106 is false); line 112 calls
\* load_config_value("jwt_expiration").
SecretFound ==
    /\ pc = "lcv_done" /\ key = "jwt_secret" /\ ret.raised = ""
    /\ Truthy(ret.value)
    /\ secret' = ret.value
    /\ key' = "jwt_expiration"
    /\ pc' = "lcv_env"
    /\ UNCHANGED <<world, ret, fh_open, file_opens, clock_reads, uuid_calls,
                   exp_seconds, now, exp, claims, encoded, stdout, stderr, exit_status,
                   invocation, prev>>

\* A variant of LifetimeOf: when the text is no integer, the sources are
\* gone through again and the first one that holds an integer is taken.
LifetimeOfNextSource(r) ==
    IF r.raised # "" THEN PyInt(DEFAULT_EXP_SECONDS)
    ELSE LET text == IF Truthy(r.value) THEN r.value[1] ELSE STR_3600
             parsed == IntOfStr(text)
             others == <<env["APP__JWT_EXPIRATION"], env["JWT_EXPIRATION"],
                         IF file.kind = "valid" /\ file.table["jwt_expiration"] # None
                            /\ PyStr(file.table["jwt_expiration"][1]).ok
                         THEN Some(PyStr(file.table["jwt_expiration"][1]).s) ELSE None>>
             good == {i \in 1..3 : Truthy(others[i]) /\ IntOfStr(others[i][1]).ok}
         IN  IF parsed.ok THEN parsed.n
             ELSE IF good = {} THEN PyInt(DEFAULT_EXP_SECONDS)
             ELSE IntOfStr(others[CHOOSE i \in good : \A j \in good : i <= j][1]).n

\* A variant of LifetimeOf: a text that is no integer gives 0, not 3600.
LifetimeOrZero(r) ==
    IF r.raised # "" THEN PyInt(0)
    ELSE LET text == IF Truthy(r.value) THEN r.value[1] ELSE STR_3600
             parsed == IntOfStr(text)
         IN  IF parsed.ok THEN parsed.n ELSE PyInt(0)

\* int(load_config_value("jwt_expiration") or "3600"), with ValueError
\* replaced by 3600 (lines 111-114); r is the outcome of the call.
LifetimeOf(r) ==
    IF r.raised # "" THEN PyInt(DEFAULT_EXP_SECONDS)
    ELSE LET text == IF Truthy(r.value) THEN r.value[1] ELSE STR_3600
             parsed == IntOfStr(text)
         IN  IF parsed.ok THEN parsed.n ELSE PyInt(DEFAULT_EXP_SECONDS)

ParseLifetime ==
    /\ pc = "lcv_done" /\ key = "jwt_expiration"
    /\ ret.raised = "" \/ IsValueError(ret.raised)
    /\ exp_seconds' = LifetimeOf(ret)
    /\ pc' = "read_clock"
    /\ UNCHANGED <<world, key, ret, fh_open, file_opens, clock_reads, uuid_calls,
                   secret, now, exp, claims, encoded, stdout, stderr, exit_status,
                   invocation, prev>>

\* A variant of ReadClock: exp from a second call of time.time().
ReadClockTwice ==
    /\ pc = "read_clock"
    /\ now' = PyInt(clock[clock_reads + 1].sec)
    /\ exp' = PyAdd(PyInt(clock[clock_reads + 2].sec), exp_seconds)
    /\ clock_reads' = clock_reads + 2
    /\ pc' = "build_claims"
    /\ UNCHANGED <<world, key, ret, fh_open, file_opens, uuid_calls,
                   secret, exp_seconds, claims, encoded, stdout, stderr, exit_status,
                   invocation, prev>>

\* now = int(time.time()); exp = now + exp_seconds (lines 116-117)
ReadClock ==
    /\ pc = "read_clock"
    /\ now' = PyInt(clock[clock_reads + 1].sec)
    /\ exp' = PyAdd(now', exp_seconds)
    /\ clock_reads' = clock_reads + 1
    /\ pc' = "build_claims"
    /\ UNCHANGED <<world, key, ret, fh_open, file_opens, uuid_calls,
                   secret, exp_seconds, claims, encoded, stdout, stderr, exit_status,
                   invocation, prev>>

\* A variant of ClaimsOf: iat is the clock rounded to the nearest second,
\* not cut to the second.
ClaimsOfRounded(sub, jti, iat, expiry, nbf) ==
    << <<K_sub, JStr(UuidToStr(sub))>>,
       <<K_name, JStr(STR_LocalAdmin)>>,
       <<K_email, JStr(STR_AdminEmail)>>,
       <<K_roles, JList(<<JStr(STR_admin)>>)>>,
       <<K_permissions,
         JList([i \in 1..Len(default_permissions) |-> JStr(default_permissions[i])] \o <<>>)>>,
       <<K_tenant_id, JNull>>,
       <<K_jti, JStr(UuidToStr(jti))>>,
       <<K_iat, JInt(IF clock[1].ms >= 500 THEN PyAdd(iat, PyInt(1)) ELSE iat)>>,
       <<K_exp, JInt(expiry)>>,
       <<K_nbf, JInt(nbf)>>,
       <<K_iss, JStr(STR_StatesetAuth)>>,
       <<K_aud, JStr(STR_StatesetApi)>>,
       <<K_scope, JNull>> >>

\* The claims dict in insertion order (lines 119-133); sub and jti are the
\* next two results of uuid.uuid4().
ClaimsOf(sub, jti, iat, expiry, nbf) ==
    << <<K_sub, JStr(UuidToStr(sub))>>,
       <<K_name, JStr(STR_LocalAdmin)>>,
       <<K_email, JStr(STR_AdminEmail)>>,
       <<K_roles, JList(<<JStr(STR_admin)>>)>>,
       <<K_permissions,
         JList([i \in 1..Len(default_permissions) |-> JStr(default_permissions[i])] \o <<>>)>>,
       <<K_tenant_id, JNull>>,
       <<K_jti, JStr(UuidToStr(jti))>>,
       <<K_iat, JInt(iat)>>,
       <<K_exp, JInt(expiry)>>,
       <<K_nbf, JInt(nbf)>>,
       <<K_iss, JStr(STR_StatesetAuth)>>,
       <<K_aud, JStr(STR_StatesetApi)>>,
       <<K_scope, JNull>> >>

\* A variant of BuildClaims: the role's wildcard ("admin:*") is appended to
\* the module-level list before the claims are built.
BuildClaimsAppending ==
    /\ pc = "build_claims"
    /\ default_permissions' =
          Append(default_permissions, <<97, 100, 109, 105, 110, 58, 42>>)
    /\ claims' = [ClaimsOf(rng[uuid_calls + 1], rng[uuid_calls + 2], now, exp, now)
                    EXCEPT ![5] = <<K_permissions,
                                    JList([i \in 1..Len(default_permissions') |->
                                              JStr(default_permissions'[i])] \o <<>>)>>]
    /\ uuid_calls' = uuid_calls + 2
    /\ pc' = "encode"
    /\ UNCHANGED <<env, file, clock, rng, key, ret, fh_open, file_opens, clock_reads,
                   secret, exp_seconds, now, exp, encoded, stdout, stderr, exit_status,
                   invocation, prev>>

BuildClaims ==
    /\ pc = "build_claims"
    /\ claims' = ClaimsOf(rng[uuid_calls + 1], rng[uuid_calls + 2], now, exp, now)
    /\ uuid_calls' = uuid_calls + 2
    /\ pc' = "encode"
    /\ UNCHANGED <<world, key, ret, fh_open, file_opens, clock_reads,
                   secret, exp_seconds, now, exp, encoded, stdout, stderr, exit_status,
                   invocation, prev>>

\* A variant of HeaderDict: a third field, the time of issue.
HeaderDictWithIat ==
    << <<K_alg, JStr(STR_HS256)>>, <<K_typ, JStr(STR_JWT)>>, <<K_iat, JInt(now)>> >>

\* A variant of HeaderDict: the header names its key, "kid": secret.
HeaderDictWithKid ==
    << <<K_alg, JStr(STR_HS256)>>, <<K_typ, JStr(STR_JWT)>>,
       <<<<107, 105, 100>>, JStr(secret[1])>> >>

\* header = {"alg": "HS256", "typ": "JWT"} (line 135)
HeaderDict == << <<K_alg, JStr(STR_HS256)>>, <<K_typ, JStr(STR_JWT)>> >>

\* b64url(json.dumps(d, separators=(",", ":"), sort_keys=True).encode())
Segment(d) ==
    LET text == json_dumps(d)
    IN  IF text.ok THEN Text(b64url(Utf8Encode(text.s))) ELSE text

\* Lines 135-139.  json.dumps(claims) raises ValueError when iat, exp or nbf
\* has too many digits for str(int); nothing catches it, and the process
\* ends with a traceback and exit status 1, header_b64 being bound.
Encode ==
    /\ pc = "encode"
    /\ header' = HeaderDict
    /\ header_b64' = Segment(header').s
    /\ LET payload == Segment(claims)
       IN  IF payload.ok
           THEN /\ payload_b64' = payload.s
                /\ signing_input' = header_b64' \o <<46>> \o payload_b64'
                /\ pc' = "sign"
                /\ UNCHANGED <<stderr, exit_status>>
           ELSE /\ stderr' = stderr \o TracebackOf("ValueError", 138)
                /\ exit_status' = 1
                /\ pc' = "exited"
                /\ UNCHANGED <<payload_b64, signing_input>>
    /\ UNCHANGED <<world, key, ret, fh_open, file_opens, clock_reads, uuid_calls,
                   secret, exp_seconds, now, exp, claims, signature, signature_b64, token,
                   stdout, invocation, prev>>

\* A variant of SignatureOf: the MAC is taken over the signing input and the
\* "." that precedes the signature in the token.
SignatureOverDot(sec, input) == hmac_sha256(Utf8Encode(sec), input \o <<46>>)

\* signature = hmac.new(secret.encode(), signing_input, hashlib.sha256).digest()
\* (lines 141-145)
SignatureOf(sec, input) == hmac_sha256(Utf8Encode(sec), input)

\* Lines 141-146.
Sign ==
    /\ pc = "sign"
    /\ signature' = SignatureOf(secret[1], signing_input)
    /\ signature_b64' = b64url(signature')
    /\ pc' = "assemble"
    /\ UNCHANGED <<world, key, ret, fh_open, file_opens, clock_reads, uuid_calls,
                   secret, exp_seconds, now, exp, claims, header, header_b64, payload_b64,
                   signing_input, token, stdout, stderr, exit_status, invocation, prev>>

\* token = (signing_input + b"." + signature_b64).decode() (line 148)
TokenOf(input, sig_b64) == Utf8Decode(input \o <<46>> \o sig_b64)

Assemble ==
    /\ pc = "assemble"
    /\ token' = TokenOf(signing_input, signature_b64)
    /\ pc' = "print"
    /\ UNCHANGED <<world, key, ret, fh_open, file_opens, clock_reads, uuid_calls,
                   secret, exp_seconds, now, exp, claims, header, header_b64, payload_b64,
                   signing_input, signature, signature_b64, stdout, stderr, exit_status,
                   invocation, prev>>

\* A variant of ReportOf: no blank lines around the token.
ReportOfNoBlankLines(seconds, tok) ==
    PrintLn(SubSeq(STR_Generated \o IntToStr(seconds).s \o STR_Seconds, 1,
                   Len(STR_Generated \o IntToStr(seconds).s \o STR_Seconds) - 1))
    \o PrintLn(tok)
    \o PrintLn(Tail(STR_UseItAs))
    \o PrintLn(STR_AuthBearer \o tok)

\* A variant of ReportOf: the token alone, without the header line.
ReportOfTokenOnly(seconds, tok) ==
    PrintLn(STR_Generated \o IntToStr(seconds).s \o STR_Seconds)
    \o PrintLn(tok)

\* A variant of ReportOf: the first line states exp, the time of expiry,
\* where the lifetime belongs.
ReportOfUntil(seconds, tok) ==
    PrintLn(STR_Generated \o IntToStr(exp).s \o STR_Seconds)
    \o PrintLn(tok)
    \o PrintLn(STR_UseItAs)
    \o PrintLn(STR_AuthBearer \o tok)

\* The four print calls of lines 150-153 (exp_seconds is the result of
\* int(), which has no more digits than str() accepts).
ReportOf(seconds, tok) ==
    PrintLn(STR_Generated \o IntToStr(seconds).s \o STR_Seconds)
    \o PrintLn(tok)
    \o PrintLn(STR_UseItAs)
    \o PrintLn(STR_AuthBearer \o tok)

\* Lines 150-154: the report, then return 0.
PrintReport ==
    /\ pc = "print"
    /\ stdout' = stdout \o ReportOf(exp_seconds, token)
    /\ exit_status' = 0
    /\ pc' = "exited"
    /\ UNCHANGED <<world, key, ret, fh_open, file_opens, clock_reads, uuid_calls, locals,
                   stderr, invocation, prev>>

-----------------------------------------------------------------------------
(* The specification: one invocation in each world of the two sweeps.      *)

NoPrev == [ran |-> FALSE]

\* The process as the interpreter starts main().
Fresh ==
    /\ pc = "start"
    /\ key = ""
    /\ ret = NoCall
    /\ fh_open = FALSE
    /\ file_opens = 0
    /\ clock_reads = 0
    /\ uuid_calls = 0
    /\ secret = None
    /\ exp_seconds = PyInt(0)
    /\ now = PyInt(0)
    /\ exp = PyInt(0)
    /\ claims = <<>>
    /\ header = <<>>
    /\ header_b64 = <<>>
    /\ payload_b64 = <<>>
    /\ signing_input = <<>>
    /\ signature = <<>>
    /\ signature_b64 = <<>>
    /\ token = <<>>
    /\ stdout = <<>>
    /\ stderr = <<>>
    /\ exit_status = -1

\* The worlds of one invocation: the two sweeps at one time with one pair of
\* identifiers, and one configuration at every time and with every pair.
Worlds ==
    {<<w[1], w[2], ClockFrom(StartTime, 250), <<UUID_A, UUID_B>>>> :
        w \in SecretSweep \cup LifetimeSweep}
    \cup {<<PairFirst[1], PairFirst[2], c, <<UUID_A, UUID_B>>>> : c \in Clocks}
    \cup {<<PairFirst[1], PairFirst[2], ClockFrom(StartTime, 250), r>> : r \in Rngs}

Init ==
    /\ \E w \in Worlds : env = w[1] /\ file = w[2] /\ clock = w[3] /\ rng = w[4]
    /\ default_permissions = DEFAULT_PERMISSIONS
    /\ invocation = 1
    /\ prev = NoPrev
    /\ Fresh

Next ==
    \/ CallSecret
    \/ LcvEnv
    \/ LcvOpen
    \/ LcvRead
    \/ UncaughtException
    \/ SecretMissing
    \/ SecretFound
    \/ ParseLifetime
    \/ ReadClock
    \/ BuildClaims
    \/ Encode
    \/ Sign
    \/ Assemble
    \/ PrintReport

Spec == Init /\ [][Next]_vars

\* The interpreter goes on to the next statement as long as there is one:
\* main() is a single thread and nothing in it waits for input.  Fairness is
\* stated action by action; for ParseLifetime, ReadClock, Encode and Sign it
\* is stated on the move of pc that these actions, and no other, make (from
\* "lcv_done" to "read_clock"; from "read_clock" to "build_claims"; from
\* "encode" to "sign" or, when json.dumps raises, to "exited"; from "sign" to
\* "assemble"), which spares evaluating int(), the sum, the encoding and the
\* digest to decide that they are enabled.
SpecLive ==
    /\ Spec
    /\ WF_vars(CallSecret)
    /\ WF_vars(LcvEnv)
    /\ WF_vars(LcvOpen)
    /\ WF_vars(LcvRead)
    /\ WF_vars(UncaughtException)
    /\ WF_vars(SecretMissing)
    /\ WF_vars(SecretFound)
    /\ WF_pc(/\ pc = "lcv_done" /\ key = "jwt_expiration"
             /\ ret.raised = "" \/ IsValueError(ret.raised)
             /\ pc' = "read_clock")
    /\ WF_pc(pc = "read_clock" /\ pc' = "build_claims")
    /\ WF_vars(BuildClaims)
    /\ WF_pc(pc = "encode" /\ pc' \in {"sign", "exited"})
    /\ WF_pc(pc = "sign" /\ pc' = "assemble")
    /\ WF_vars(Assemble)
    /\ WF_vars(PrintReport)

-----------------------------------------------------------------------------
(* Two invocations one after the other, the second in a world of its own.  *)

\* What an invocation leaves behind for the comparison with the next one.
Summary ==
    [ran |-> TRUE, exit_status |-> exit_status, secret |-> secret,
     exp_seconds |-> exp_seconds, now |-> now, claims |-> claims,
     header_b64 |-> header_b64, payload_b64 |-> payload_b64,
     signature_b64 |-> signature_b64, token |-> token, stdout |-> stdout,
     stderr |-> stderr, rng |-> rng, file |-> file, file_opens |-> file_opens]

\* The command is run again: a new process, with nothing kept of the first.
Reinvoke ==
    /\ pc = "exited"
    /\ invocation = 1
    /\ invocation' = 2
    /\ prev' = Summary
    /\ \E w \in PairWorlds : env' = w[1] /\ file' = w[2]
    /\ clock' \in Clocks
    /\ rng' \in Rngs
    /\ default_permissions' = DEFAULT_PERMISSIONS
    /\ pc' = "start" /\ key' = "" /\ ret' = NoCall /\ fh_open' = FALSE
    /\ file_opens' = 0 /\ clock_reads' = 0 /\ uuid_calls' = 0
    /\ secret' = None /\ exp_seconds' = PyInt(0) /\ now' = PyInt(0) /\ exp' = PyInt(0)
    /\ claims' = <<>> /\ header' = <<>> /\ header_b64' = <<>>
    /\ payload_b64' = <<>> /\ signing_input' = <<>> /\ signature' = <<>>
    /\ signature_b64' = <<>> /\ token' = <<>>
    /\ stdout' = <<>> /\ stderr' = <<>> /\ exit_status' = -1

InitPair ==
    /\ env = PairFirst[1]
    /\ file = PairFirst[2]
    /\ clock = ClockFrom(StartTime, 250)
    /\ rng = <<UUID_A, UUID_B>>
    /\ default_permissions = DEFAULT_PERMISSIONS
    /\ invocation = 1
    /\ prev = NoPrev
    /\ Fresh

NextPair ==
    \/ CallSecret
    \/ LcvEnv
    \/ LcvOpen
    \/ LcvRead
    \/ UncaughtException
    \/ SecretMissing
    \/ SecretFound
    \/ ParseLifetime
    \/ ReadClock
    \/ BuildClaims
    \/ Encode
    \/ Sign
    \/ Assemble
    \/ PrintReport
    \/ Reinvoke

SpecPair == InitPair /\ [][NextPair]_vars

-----------------------------------------------------------------------------
(* Two invocations in one environment, at the same time and with the same  *)
(* identifiers, config/default.toml being changed in between.              *)

\* The command is run again after the file was changed: a new process.
RerunOtherFile ==
    /\ pc = "exited"
    /\ invocation = 1
    /\ invocation' = 2
    /\ prev' = Summary
    /\ \E c \in FileChanges : c[1] = env /\ c[2] = file /\ file' = c[3]
    /\ UNCHANGED <<env, clock, rng>>
    /\ default_permissions' = DEFAULT_PERMISSIONS
    /\ pc' = "start" /\ key' = "" /\ ret' = NoCall /\ fh_open' = FALSE
    /\ file_opens' = 0 /\ clock_reads' = 0 /\ uuid_calls' = 0
    /\ secret' = None /\ exp_seconds' = PyInt(0) /\ now' = PyInt(0) /\ exp' = PyInt(0)
    /\ claims' = <<>> /\ header' = <<>> /\ header_b64' = <<>>
    /\ payload_b64' = <<>> /\ signing_input' = <<>> /\ signature' = <<>>
    /\ signature_b64' = <<>> /\ token' = <<>>
    /\ stdout' = <<>> /\ stderr' = <<>> /\ exit_status' = -1

InitFiles ==
    /\ \E c \in FileChanges : env = c[1] /\ file = c[2]
    /\ clock = ClockFrom(StartTime, 250)
    /\ rng = <<UUID_A, UUID_B>>
    /\ default_permissions = DEFAULT_PERMISSIONS
    /\ invocation = 1
    /\ prev = NoPrev
    /\ Fresh

NextFiles ==
    \/ CallSecret
    \/ LcvEnv
    \/ LcvOpen
    \/ LcvRead
    \/ UncaughtException
    \/ SecretMissing
    \/ SecretFound
    \/ ParseLifetime
    \/ ReadClock
    \/ BuildClaims
    \/ Encode
    \/ Sign
    \/ Assemble
    \/ PrintReport
    \/ RerunOtherFile

SpecFiles == InitFiles /\ [][NextFiles]_vars

-----------------------------------------------------------------------------
(* Reading a token back: what a verifier does with the text on stdout.     *)

\* The positions of byte c in s, and the pieces of s between them.
PositionsOf(s, c) == {i \in 1..Len(s) : s[i] = c}
NthOf(P, n) == CHOOSE i \in P : Cardinality({j \in P : j < i}) = n - 1
PieceOf(s, P, n) ==
    SubSeq(s,
           IF n = 1 THEN 1 ELSE NthOf(P, n - 1) + 1,
           IF n = Cardinality(P) + 1 THEN Len(s) ELSE NthOf(P, n) - 1)
SplitOn(s, c) ==
    LET P == PositionsOf(s, c)
    IN  [n \in 1..(Cardinality(P) + 1) |-> PieceOf(s, P, n)]

\* The lines of stdout (the last piece, after the final newline, is empty).
StdoutLines == SplitOn(stdout, 10)

\* main() returned 0 after its four print calls.
Issued == pc = "exited" /\ exit_status = 0

\* The token as written: the third line of stdout.
WrittenToken == StdoutLines[3]

\* The values the three sources of the secret hold in this world.
SecretSourceValues ==
    {env[n][1] : n \in {m \in {"APP__JWT_SECRET", "JWT_SECRET"} : env[m] # None}}
    \cup (IF /\ file.kind = "valid" /\ file.table["jwt_secret"] # None
             /\ PyStr(file.table["jwt_secret"][1]).ok
          THEN {PyStr(file.table["jwt_secret"][1]).s} ELSE {})

\* No source holds a non-empty secret (a file that cannot be read or parsed,
\* or whose value has no text, holds none).
SecretUnobtainable == \A v \in SecretSourceValues : v = <<>>

\* C1: whenever a signature has been computed or anything has been written to
\* stdout, the secret that keyed the HMAC is a non-empty string, and it is
\* the value of one of the three sources, never a built-in default.
C1_SecretNeverEmpty ==
    (signature # <<>> \/ stdout # <<>>) =>
        /\ secret # None
        /\ secret[1] # <<>>
        /\ secret[1] \in SecretSourceValues

\* C1 witness: a token is on stdout, both variables are unset or empty, the
\* secret comes from the file.
C1_Witness ==
    /\ Issued /\ Len(WrittenToken) > 0
    /\ env["APP__JWT_SECRET"] = Some(<<>>) /\ env["JWT_SECRET"] = None
    /\ secret = Some(STR_filesecret)

\* C2: when no source holds a non-empty secret, nothing is ever written to
\* stdout, no token is built, and a finished main() has exit status 1.
C2_NoSecretNoToken ==
    SecretUnobtainable =>
        /\ stdout = <<>>
        /\ token = <<>>
        /\ pc = "exited" => exit_status = 1

\* C2 witness: the file's jwt_secret is the empty string, the variables are
\* unset, and main() has returned 1 after its message on stderr.
C2_Witness ==
    /\ pc = "exited" /\ exit_status = 1 /\ stdout = <<>>
    /\ stderr = <<MSG_NO_SECRET>>
    /\ env["APP__JWT_SECRET"] = None /\ env["JWT_SECRET"] = None
    /\ file.kind = "valid" /\ file.table["jwt_secret"] = Some(TomlStr(<<>>))


\* The three sources of a setting in the order of the documentation: the
\* APP__ variable, the legacy variable, the key of config/default.toml (as
\* text; a file that is missing, unreadable or not TOML yields nothing, and
\* so does an integer of more digits than str() accepts).
PrimaryVar(k) == IF k = "jwt_secret" THEN "APP__JWT_SECRET" ELSE "APP__JWT_EXPIRATION"
SecondaryVar(k) == IF k = "jwt_secret" THEN "JWT_SECRET" ELSE "JWT_EXPIRATION"
FileValue(k) ==
    IF file.kind = "valid" /\ file.table[k] # None /\ PyStr(file.table[k][1]).ok
    THEN Some(PyStr(file.table[k][1]).s) ELSE None
SourcesOf(k) == <<env[PrimaryVar(k)], env[SecondaryVar(k)], FileValue(k)>>
NonEmptyAt(srcs) == {i \in 1..Len(srcs) : srcs[i] # None /\ srcs[i][1] # <<>>}
FirstNonEmpty(srcs) ==
    IF NonEmptyAt(srcs) = {} THEN None
    ELSE srcs[CHOOSE i \in NonEmptyAt(srcs) : \A j \in NonEmptyAt(srcs) : i <= j]

\* C3: when some source of the setting asked for holds a non-empty value,
\* load_config_value returns (and does not raise) the value of the first such
\* source in the order APP__ variable, legacy variable, file key.
C3_FirstNonEmptyWins ==
    (pc = "lcv_done" /\ FirstNonEmpty(SourcesOf(key)) # None) =>
        ret = Returned(FirstNonEmpty(SourcesOf(key)))

\* C3 witness: APP__JWT_EXPIRATION is the empty string, JWT_EXPIRATION is
\* "120" and the file says 7200: the call has returned "120".
C3_Witness ==
    /\ pc = "lcv_done" /\ key = "jwt_expiration"
    /\ env["APP__JWT_EXPIRATION"] = Some(<<>>)
    /\ env["JWT_EXPIRATION"] = Some(STR_120)
    /\ FileValue("jwt_expiration") = Some(<<55, 50, 48, 48>>)
    /\ ret = Returned(Some(STR_120))

\* C4 (as stated): load_config_value never returns the empty string: what
\* it returns is a non-empty value or None.
C4_NeverReturnsEmpty ==
    (pc = "lcv_done" /\ ret.raised = "") => ret.value # Some(<<>>)


\* The value of a character of the URL-safe base64 alphabet (RFC 4648,
\* section 5): A-Z, a-z, 0-9, '-', '_'; 64 for any other byte.
B64Value(c) ==
    IF c >= 65 /\ c <= 90 THEN c - 65
    ELSE IF c >= 97 /\ c <= 122 THEN c - 71
    ELSE IF c >= 48 /\ c <= 57 THEN c + 4
    ELSE IF c = 45 THEN 62
    ELSE IF c = 95 THEN 63
    ELSE 64

\* The bytes an unpadded base64url text stands for: byte k is made of the
\* two characters that hold its eight bits.
B64UrlDecode(seg) ==
    [k \in 1..((Len(seg) * 6) \div 8) |->
        LET q == ((8 * (k - 1)) \div 6) + 1
            r == (8 * (k - 1)) % 6
            pair == B64Value(seg[q]) * 64 + B64Value(seg[q + 1])
        IN  (pair \div (IF r = 0 THEN 16 ELSE IF r = 2 THEN 4 ELSE 1)) % 256] \o <<>>

\* The member "k": of a JSON object text p, and the integer that follows it.
MemberAt(p, k) ==
    LET pat == <<34>> \o k \o <<34, 58>>
    IN  {i \in 1..(Len(p) - Len(pat)) : \A j \in 1..Len(pat) : p[i + j - 1] = pat[j]}
RECURSIVE ReadNat(_, _, _)
ReadNat(p, i, acc) ==
    IF i <= Len(p) /\ IsDigit(p[i]) THEN ReadNat(p, i + 1, acc * 10 + (p[i] - 48))
    ELSE [n |-> acc, end |-> i]
ReadInt(p, i) ==
    LET neg == p[i] = 45
        first == IF neg THEN i + 1 ELSE i
        got == ReadNat(p, first, 0)
    IN  [ok |-> got.end > first /\ got.end <= Len(p) /\ p[got.end] \in {44, 125},
         n |-> IF neg THEN 0 - got.n ELSE got.n]
IntMember(p, k) ==
    IF Cardinality(MemberAt(p, k)) # 1 THEN [ok |-> FALSE, n |-> 0]
    ELSE ReadInt(p, (CHOOSE i \in MemberAt(p, k) : TRUE) + Len(k) + 3)

\* The payload of the token on stdout: its second segment, decoded.
WrittenPayload == B64UrlDecode(SplitOn(WrittenToken, 46)[2])

\* The value of a Python int of at most nine digits.
IntValue(x) ==
    IF x.neg THEN 0 - DigitsValue(x.mag, 1, 0) ELSE DigitsValue(x.mag, 1, 0)

\* exp, iat and nbf of a payload are integers with exp - iat = seconds and
\* nbf = iat = at.
TimesAre(p, at, seconds) ==
    /\ IntMember(p, K_iat) = [ok |-> TRUE, n |-> at]
    /\ IntMember(p, K_nbf) = [ok |-> TRUE, n |-> at]
    /\ IntMember(p, K_exp) = [ok |-> TRUE, n |-> at + seconds]

\* C5: in the payload of every issued token exp, iat and nbf are integers,
\* exp - iat is the resolved lifetime, nbf = iat, and all three come from the
\* one reading of the clock the run has made.
C5_TimesFromOneReading ==
    Issued => /\ clock_reads = 1
              /\ TimesAre(WrittenPayload, clock[1].sec, IntValue(exp_seconds))

\* C5 witness: a token issued with the file's lifetime of 7200 seconds.
C5_Witness ==
    /\ Issued
    /\ FileValue("jwt_expiration") = Some(<<55, 50, 48, 48>>)
    /\ exp_seconds = PyInt(7200)
    /\ IntMember(WrittenPayload, K_exp).n = StartTime + 7200

\* The text the lifetime resolves to, if any source holds one.
LifetimeText == FirstNonEmpty(SourcesOf("jwt_expiration"))

\* C6: with a secret to be had and a lifetime text that int() rejects, a
\* finished main() has issued a token with exp - iat = 3600, exit status 0
\* and nothing on stderr.
C6_UnparseableLifetime ==
    (/\ pc = "exited"
     /\ ~SecretUnobtainable
     /\ LifetimeText # None
     /\ ~IntOfStr(LifetimeText[1]).ok) =>
        /\ exit_status = 0
        /\ stderr = <<>>
        /\ TimesAre(WrittenPayload, clock[1].sec, 3600)

\* C6 witness: APP__JWT_EXPIRATION is "abc" and the token is out.
C6_Witness ==
    /\ Issued
    /\ env["APP__JWT_EXPIRATION"] = Some(STR_abc)
    /\ Len(WrittenToken) > 0
    /\ stderr = <<>>

\* The lifetime is in no source: both variables unset or empty, and the file
\* missing or without the key.
LifetimeAbsent ==
    /\ env["APP__JWT_EXPIRATION"] \in Unset
    /\ env["JWT_EXPIRATION"] \in Unset
    /\ \/ file.kind = "missing"
       \/ file.kind = "valid" /\ file.table["jwt_expiration"] = None

\* s begins with pre.
StartsWith(s, pre) == Len(s) >= Len(pre) /\ SubSeq(s, 1, Len(pre)) = pre

\* C7: with a secret to be had and the lifetime in no source, a finished
\* main() has issued a token with exp - iat = 3600, and stdout has a line
\* that begins "Authorization: Bearer ".
C7_DefaultLifetime ==
    (pc = "exited" /\ ~SecretUnobtainable /\ LifetimeAbsent) =>
        /\ exit_status = 0
        /\ TimesAre(WrittenPayload, clock[1].sec, 3600)
        /\ LET lines == StdoutLines
           IN  \E n \in 1..Len(lines) : StartsWith(lines[n], STR_AuthBearer)

\* C7 witness: no variable is set, the file holds the secret and no lifetime.
C7_Witness ==
    /\ Issued
    /\ \A n \in EnvNames : env[n] = None
    /\ file = FileValid(Some(TomlStr(STR_filesecret)), None)
    /\ StartsWith(StdoutLines[6], STR_AuthBearer \o token)


\* The segments of the token on stdout.
WrittenSegments == SplitOn(WrittenToken, 46)

\* C8: every issued token has exactly two '.' and three non-empty segments,
\* and holds none of '=', '+', '/'.
C8_TokenShape ==
    Issued => LET tok == WrittenToken
                  segs == SplitOn(tok, 46)
              IN  /\ Cardinality(PositionsOf(tok, 46)) = 2
                  /\ \A n \in 1..3 : Len(segs[n]) > 0
                  /\ \A i \in 1..Len(tok) : tok[i] \notin {61, 43, 47}

\* C8 witness: a token whose signature, 32 bytes long, would end in '=' with
\* padding, and which holds a '-' or '_' (a '+' or '/' of the standard
\* alphabet).
C8_Witness ==
    /\ Issued
    /\ Len(signature) % 3 # 0
    /\ LET tok == WrittenToken
       IN  \E i \in 1..Len(tok) : tok[i] \in {45, 95}
    /\ Len(WrittenSegments) = 3

\* The secret as the sources give it, in the documented order.
ResolvedSecret == FirstNonEmpty(SourcesOf("jwt_secret"))

\* C9: the third segment of every issued token is the unpadded URL-safe
\* base64 of HMAC-SHA256, keyed with the resolved secret, over the first
\* segment, a '.', and the second segment, as they stand in the token.
C9_SignatureVerifies ==
    Issued =>
        /\ Len(WrittenSegments) = 3
        /\ ResolvedSecret # None
        /\ WrittenSegments[3] =
             b64url(hmac_sha256(Utf8Encode(ResolvedSecret[1]),
                                WrittenSegments[1] \o <<46>> \o WrittenSegments[2]))

\* C9 witness: a token signed with the file's secret; its third segment
\* decodes to the 32 bytes of the MAC.
C9_Witness ==
    /\ Issued
    /\ ResolvedSecret = Some(STR_filesecret)
    /\ Len(signature) = 32
    /\ B64UrlDecode(WrittenSegments[3]) = signature

\* The second run had the inputs of the first: secret, lifetime, clock value
\* in whole seconds, sub and jti.
SameInputs ==
    /\ secret = prev.secret
    /\ exp_seconds = prev.exp_seconds
    /\ now = prev.now
    /\ \A k \in {K_sub, K_jti} :
          \E i \in 1..Len(claims), j \in 1..Len(prev.claims) :
              claims[i][1] = k /\ prev.claims[j] = claims[i]

\* C10: two runs that issue a token from the same secret, lifetime, clock
\* value, sub and jti write the same three segments and the same token,
\* whatever else differs between their worlds.
C10_Deterministic ==
    (invocation = 2 /\ Issued /\ prev.exit_status = 0 /\ SameInputs) =>
        /\ header_b64 = prev.header_b64
        /\ payload_b64 = prev.payload_b64
        /\ signature_b64 = prev.signature_b64
        /\ token = prev.token
        /\ stdout = prev.stdout

\* C10 witness: the second run took the secret from JWT_SECRET and the
\* lifetime from the file, half a second later within the same second, and
\* wrote the first run's token.
C10_Witness ==
    /\ invocation = 2 /\ Issued /\ prev.exit_status = 0 /\ SameInputs
    /\ env["JWT_SECRET"] = Some(STR_topsecret)
    /\ FileValue("jwt_expiration") = Some(STR_3600)
    /\ clock[1].ms = 750
    /\ WrittenToken = prev.token


\* The string member "k":"..." of a JSON object text p (no escapes in it).
StrMember(p, k) ==
    LET at == MemberAt(p, k)
        start == (CHOOSE i \in at : TRUE) + Len(k) + 4
    IN  IF Cardinality(at) # 1 THEN [ok |-> FALSE, s |-> <<>>]
        ELSE IF p[start - 1] # 34 THEN [ok |-> FALSE, s |-> <<>>]
        ELSE [ok |-> TRUE,
              s |-> SubSeq(p, start,
                           (CHOOSE j \in start..Len(p) :
                               p[j] = 34 /\ \A m \in start..(j - 1) : p[m] # 34) - 1)]

\* The payload of a token text.
PayloadOf(tok) == B64UrlDecode(SplitOn(tok, 46)[2])

\* The member "k":text of a JSON object text p, once, followed by ',' or '}'.
HasMember(p, k, text) ==
    LET at == MemberAt(p, k)
        start == (CHOOSE i \in at : TRUE) + Len(k) + 3
    IN  /\ Cardinality(at) = 1
        /\ start + Len(text) <= Len(p)
        /\ SubSeq(p, start, start + Len(text) - 1) = text
        /\ p[start + Len(text)] \in {44, 125}

\* The JSON text of a string without characters to escape, and of a list of
\* such strings.
Quoted(str) == <<34>> \o str \o <<34>>
RECURSIVE QuotedFrom(_, _)
QuotedFrom(list, i) ==
    IF i > Len(list) THEN <<>>
    ELSE (IF i > 1 THEN <<44>> ELSE <<>>) \o Quoted(list[i]) \o QuotedFrom(list, i + 1)
QuotedList(list) == <<91>> \o QuotedFrom(list, 1) \o <<93>>

\* C12: the module's DEFAULT_PERMISSIONS list is never changed, and in every
\* issued token, whatever the secret, lifetime, time and sources, roles is
\* ["admin"], permissions is DEFAULT_PERMISSIONS in its order, and name,
\* email, iss and aud are the fixed texts.
C12_FixedIdentity ==
    /\ default_permissions = DEFAULT_PERMISSIONS
    /\ Issued =>
          LET p == WrittenPayload
          IN  /\ HasMember(p, K_roles, QuotedList(<<STR_admin>>))
              /\ HasMember(p, K_permissions, QuotedList(DEFAULT_PERMISSIONS))
              /\ HasMember(p, K_name, Quoted(STR_LocalAdmin))
              /\ HasMember(p, K_email, Quoted(STR_AdminEmail))
              /\ HasMember(p, K_iss, Quoted(STR_StatesetAuth))
              /\ HasMember(p, K_aud, Quoted(STR_StatesetApi))

\* C12 witness: a token issued from the file's secret with the file's
\* lifetime holds the 33 permissions.
C12_Witness ==
    /\ Issued
    /\ secret = Some(STR_filesecret) /\ exp_seconds = PyInt(7200)
    /\ Len(default_permissions) = Len(DEFAULT_PERMISSIONS)
    /\ HasMember(WrittenPayload, K_permissions, QuotedList(default_permissions))


\* {"alg":"HS256","typ":"JWT"} and its unpadded URL-safe base64,
\* eyJhbGciOiJIUzI1NiIsInR5cCI6IkpXVCJ9
HEADER_JSON ==
    <<123, 34, 97, 108, 103, 34, 58, 34, 72, 83, 50, 53, 54, 34, 44, 34, 116,
      121, 112, 34, 58, 34, 74, 87, 84, 34, 125>>
HEADER_SEGMENT ==
    <<101, 121, 74, 104, 98, 71, 99, 105, 79, 105, 74, 73, 85, 122, 73, 49,
      78, 105, 73, 115, 73, 110, 82, 53, 99, 67, 73, 54, 73, 107, 112, 88,
      86, 67, 74, 57>>

\* C13: the first segment of every issued token is one constant text, the
\* encoding of a JSON object with the two fields alg = "HS256" and
\* typ = "JWT" and no other, whatever the secret, lifetime, time and sources.
C13_ConstantHeader ==
    Issued =>
        LET segs == WrittenSegments
        IN  /\ segs[1] = HEADER_SEGMENT
            /\ B64UrlDecode(segs[1]) = HEADER_JSON

\* C13 witness: a token issued a second later, from another secret than
\* APP__JWT_SECRET's, with the constant first segment.
C13_Witness ==
    /\ Issued
    /\ WrittenSegments[1] = HEADER_SEGMENT
    /\ clock[1] = TimeAt(StartTime + 1, 750)


\* The keys of a JSON object text p that has no nested object and no string
\* holding '"' or '":': each key ends at a '"' followed by ':' and begins
\* after the '"' before it.
KeyEnds(p) == {i \in 2..(Len(p) - 1) : p[i] = 34 /\ p[i + 1] = 58}
KeyAt(p, i) ==
    SubSeq(p, (CHOOSE j \in 1..(i - 1) : p[j] = 34 /\ \A m \in (j + 1)..(i - 1) : p[m] # 34) + 1,
           i - 1)
KeysOf(p) == {KeyAt(p, i) : i \in KeyEnds(p)}

\* null
JSON_NULL == <<110, 117, 108, 108>>

\* The thirteen keys of the payload.
PAYLOAD_KEYS ==
    {K_sub, K_name, K_email, K_roles, K_permissions, K_tenant_id, K_jti,
     K_iat, K_exp, K_nbf, K_iss, K_aud, K_scope}

\* C14: the payload of every issued token is a JSON object with exactly the
\* thirteen keys, each once, and tenant_id and scope are there with the value
\* null.
C14_ThirteenKeys ==
    Issued =>
        LET p == WrittenPayload
        IN  /\ p[1] = 123 /\ p[Len(p)] = 125
            /\ Cardinality(KeyEnds(p)) = 13
            /\ KeysOf(p) = PAYLOAD_KEYS
            /\ HasMember(p, K_tenant_id, JSON_NULL)
            /\ HasMember(p, K_scope, JSON_NULL)

\* C14 witness: an issued token whose payload has "tenant_id":null, the key
\* scope and the string member sub.
C14_Witness ==
    /\ Issued
    /\ Cardinality(PAYLOAD_KEYS) = 13
    /\ LET p == WrittenPayload
       IN  /\ HasMember(p, K_tenant_id, JSON_NULL)
           /\ K_scope \in KeysOf(p)
           /\ StrMember(p, K_sub).ok


\* C15 (as stated): a finished run has a non-zero exit status only when no
\* source holds a non-empty secret; with such a secret, whatever the state of
\* the file and of the lifetime, it has exit status 0 and a token on stdout.
C15_OnlyMissingSecretFails ==
    pc = "exited" =>
        /\ exit_status # 0 => SecretUnobtainable
        /\ ~SecretUnobtainable => exit_status = 0 /\ stdout # <<>>

\* C16 (as stated): a run that ends with no source holding a non-empty
\* secret has written exactly one line to stderr, the one that names
\* APP__JWT_SECRET and config/default.toml; a run that issued a token has
\* written nothing to stderr.
C16_OneDiagnosticLine ==
    /\ (pc = "exited" /\ SecretUnobtainable) => stderr = <<MSG_NO_SECRET>>
    /\ Issued => stderr = <<>>

\* "Generated admin JWT (valid for ", " seconds):", "Use it as:"
VALIDITY_HEAD ==
    <<71, 101, 110, 101, 114, 97, 116, 101, 100, 32, 97, 100, 109, 105, 110,
      32, 74, 87, 84, 32, 40, 118, 97, 108, 105, 100, 32, 102, 111, 114, 32>>
VALIDITY_TAIL ==
    <<32, 115, 101, 99, 111, 110, 100, 115, 41, 58>>
USE_IT_AS ==
    <<85, 115, 101, 32, 105, 116, 32, 97, 115, 58>>

\* The validity statement for a lifetime.
ValidityLine(seconds) == VALIDITY_HEAD \o IntToStr(seconds).s \o VALIDITY_TAIL

\* C17 (as stated): the lines of stdout are the validity statement, a blank
\* line, the token, a blank line and the Authorization line, nothing else.
C17_FiveLines ==
    Issued =>
        StdoutLines = <<ValidityLine(exp_seconds), <<>>, token, <<>>,
                        STR_AuthBearer \o token, <<>>>>

\* C17 (amended): the lines of stdout are, in this order, the validity
\* statement, a blank line, the token, a blank line, the line "Use it as:"
\* and the Authorization line, each ended by a newline, nothing else.
C17_SixLines ==
    Issued =>
        StdoutLines = <<ValidityLine(exp_seconds), <<>>, token, <<>>,
                        USE_IT_AS, STR_AuthBearer \o token, <<>>>>

\* C17 witness: the report of a token valid for 120 seconds, with "Use it
\* as:" on its fifth line.
C17_Witness ==
    /\ Issued
    /\ exp_seconds = PyInt(120)
    /\ LET lines == StdoutLines
       IN  /\ Len(lines) = 7
           /\ lines[5] = USE_IT_AS
           /\ lines[6] = STR_AuthBearer \o lines[3]

\* C18 (as stated): in one invocation config/default.toml is opened at most
\* once.
C18_OpenedAtMostOnce == file_opens <= 1


\* C19: the file is open only inside the with-block of load_config_value: it
\* is closed in every state after the call has returned or raised, and in
\* every state of signing and printing.
C19_FileClosedOutsideWith == fh_open => pc = "lcv_read"

\* C19 witness: the run is about to sign, it has opened the file twice, and
\* the file is closed.
C19_Witness == pc = "sign" /\ file_opens = 2 /\ ~fh_open

\* C20: no step of an invocation changes an environment variable or
\* config/default.toml (a missing file stays missing).
C20_NeverWrites == [][env' = env /\ file' = file]_vars

\* C20 witness: a run that read the lifetime from the file, a malformed one,
\* has ended with its token printed.
C20_Witness ==
    /\ Issued
    /\ file_opens = 1
    /\ FileValue("jwt_expiration") = Some(STR_soon)


\* The second of two runs in one environment has ended, the first one
\* without config/default.toml, the second with a file that holds neither
\* jwt_secret nor jwt_expiration.
MissingThenEmpty ==
    /\ invocation = 2 /\ pc = "exited"
    /\ prev.file = FileMissing
    /\ file.kind = "valid" /\ \A k \in ConfigKeys : file.table[k] = None

\* C21: in every state of the four environment variables, a run without
\* config/default.toml and a run with a file that holds neither jwt_secret
\* nor jwt_expiration end with the same exit status, the same stderr, the
\* same secret and the same lifetime.
C21_MissingIsEmpty ==
    MissingThenEmpty =>
        /\ exit_status = prev.exit_status
        /\ stderr = prev.stderr
        /\ secret = prev.secret
        /\ exp_seconds = prev.exp_seconds

\* C21 witness: with JWT_SECRET set and the lifetime in no variable, both
\* runs have issued a token valid for 3600 seconds, the first without
\* opening a file, the second after opening the file for the lifetime.
C21_Witness ==
    /\ MissingThenEmpty
    /\ prev.file_opens = 0 /\ file_opens = 1
    /\ env = Env(Some(<<>>), Some(STR_legacy), None, Some(<<>>))
    /\ exit_status = 0 /\ prev.exp_seconds = PyInt(3600) /\ stdout # <<>>


\* A step of the Issuer has been taken: the clock was read, an identifier
\* was generated, a signature was computed or something is on stdout.
IssuerStarted ==
    \/ clock_reads > 0
    \/ uuid_calls > 0
    \/ claims # <<>>
    \/ signature # <<>>
    \/ stdout # <<>>

\* Execution is inside load_config_value or at its return.
InResolver == pc \in {"lcv_env", "lcv_open", "lcv_read", "lcv_done"}

\* C22: the lifetime is asked for only once the secret is there; the clock is
\* read, identifiers are generated, a signature is computed and stdout is
\* written only after both calls of load_config_value have returned, the one
\* for the lifetime last; and a run that ends with no secret has taken none
\* of these steps and has not asked for the lifetime.
C22_ResolverBeforeIssuer ==
    /\ key = "jwt_expiration" => Truthy(secret)
    /\ IssuerStarted => Truthy(secret) /\ key = "jwt_expiration" /\ ~InResolver
    /\ (pc = "exited" /\ ~Truthy(secret)) =>
          /\ ~IssuerStarted
          /\ key = "jwt_secret"
          /\ exp_seconds = PyInt(0) /\ token = <<>>
          /\ exit_status = 1

\* C22 witness: the clock has just been read, no identifier is generated
\* yet, and the secret and the lifetime are there, both from the file.
C22_Witness ==
    /\ pc = "build_claims"
    /\ clock_reads = 1 /\ uuid_calls = 0 /\ stdout = <<>>
    /\ secret = Some(STR_filesecret) /\ exp_seconds = PyInt(7200)
    /\ file_opens = 2


\* The place of a state in the order of the statements of main(): the two
\* calls of load_config_value (lines 105 and 112) with the four places
\* inside each, then lines 116 to 154, then the end of the process.
StepRank ==
    CASE pc = "start" -> 0
      [] pc = "lcv_env" -> IF key = "jwt_secret" THEN 1 ELSE 5
      [] pc = "lcv_open" -> IF key = "jwt_secret" THEN 2 ELSE 6
      [] pc = "lcv_read" -> IF key = "jwt_secret" THEN 3 ELSE 7
      [] pc = "lcv_done" -> IF key = "jwt_secret" THEN 4 ELSE 8
      [] pc = "read_clock" -> 9
      [] pc = "build_claims" -> 10
      [] pc = "encode" -> 11
      [] pc = "sign" -> 12
      [] pc = "assemble" -> 13
      [] pc = "print" -> 14
      [] pc = "exited" -> 15

\* The process has ended: with status 0 and the token on stdout, or with
\* status 1 and nothing on stdout.
Terminated ==
    /\ pc = "exited"
    /\ \/ exit_status = 0 /\ token # <<>> /\ stdout # <<>>
       \/ exit_status = 1 /\ stdout = <<>>

\* C23: every step of an invocation moves forward in the order of the
\* statements of main(), so no step is taken twice and a run has at most
\* fifteen steps; and every invocation ends, with status 0 and its token
\* printed or with status 1.
C23_Terminates ==
    /\ [][StepRank' > StepRank]_vars
    /\ <>Terminated

\* C23 witness: a run that took the longest way (both settings from the
\* file) has ended with its token printed.
C23_Witness ==
    /\ Terminated
    /\ exit_status = 0
    /\ file_opens = 2
    /\ secret = Some(STR_filesecret) /\ exp_seconds = PyInt(7200)


\* The keys of a JSON object text in the order they stand in it.
KeySeq(p) ==
    LET E == KeyEnds(p)
    IN  [n \in 1..Cardinality(E) |-> KeyAt(p, NthOf(E, n))] \o <<>>

\* The keys of the header and of the payload in ascending order.
HEADER_KEYS_SORTED == <<K_alg, K_typ>>
PAYLOAD_KEYS_SORTED ==
    <<K_aud, K_email, K_exp, K_iat, K_iss, K_jti, K_name, K_nbf, K_permissions,
      K_roles, K_scope, K_sub, K_tenant_id>>

\* No space, tab or line break of a JSON text stands outside a string (the
\* strings of these texts hold no '"').
NoSpaceBetweenTokens(p) ==
    LET Q == PositionsOf(p, 34)
    IN  \A i \in 1..Len(p) :
            p[i] \in {32, 9, 10, 13} => Cardinality({q \in Q : q < i}) % 2 = 1

\* C24: in every issued token the header's keys stand in the order alg, typ
\* and the payload's in ascending order (aud ... tenant_id), whatever the
\* order of the claims dict, no whitespace stands between the tokens of
\* either text, and the permissions and roles arrays have the order of their
\* lists.
C24_CanonicalJson ==
    Issued =>
        LET segs == WrittenSegments
            h == B64UrlDecode(segs[1])
            p == B64UrlDecode(segs[2])
        IN  /\ KeySeq(h) = HEADER_KEYS_SORTED
            /\ KeySeq(p) = PAYLOAD_KEYS_SORTED
            /\ NoSpaceBetweenTokens(h)
            /\ NoSpaceBetweenTokens(p)
            /\ HasMember(p, K_permissions, QuotedList(default_permissions))
            /\ HasMember(p, K_roles, QuotedList(<<STR_admin>>))

\* C24 witness: the claims dict was built with sub first and scope last,
\* the payload of the issued token begins with aud and ends with tenant_id,
\* and it holds a space inside a string.
C24_Witness ==
    /\ Issued
    /\ claims[1][1] = K_sub /\ claims[Len(claims)][1] = K_scope
    /\ LET p == WrittenPayload
           keys == KeySeq(p)
       IN  /\ keys[1] = K_aud /\ keys[13] = K_tenant_id
           /\ \E i \in 1..Len(p) : p[i] = 32


\* orders, inventory, returns, shipments, warranties, workorders
RESOURCE_DOMAINS ==
    {<<111, 114, 100, 101, 114, 115>>,
     <<105, 110, 118, 101, 110, 116, 111, 114, 121>>,
     <<114, 101, 116, 117, 114, 110, 115>>,
     <<115, 104, 105, 112, 109, 101, 110, 116, 115>>,
     <<119, 97, 114, 114, 97, 110, 116, 105, 101, 115>>,
     <<119, 111, 114, 107, 111, 114, 100, 101, 114, 115>>}

\* "<domain>:*" and "<domain>:"
WildcardOf(d) == d \o <<58, 42>>
PrefixOf(d) == d \o <<58>>

\* The list has the domain's wildcard entry and an entry for a specific
\* action of the domain.
HasWildcardAndActions(list, d) ==
    /\ \E i \in 1..Len(list) : list[i] = WildcardOf(d)
    /\ \E i \in 1..Len(list) :
          StartsWith(list[i], PrefixOf(d)) /\ list[i] # WildcardOf(d)

\* No entry stands twice in the list.
NoDuplicates(list) ==
    \A i, j \in 1..Len(list) : list[i] = list[j] => i = j

\* C25: at every moment the permission list holds, for each of the domains
\* orders, inventory, returns, shipments, warranties and workorders, the
\* entry "<domain>:*" besides entries for specific actions of the domain, and
\* no entry twice.
C25_WildcardPerDomain ==
    /\ \A d \in RESOURCE_DOMAINS : HasWildcardAndActions(default_permissions, d)
    /\ NoDuplicates(default_permissions)

\* C25 witness: a token was issued whose permissions array is the list, with
\* the six wildcards among its 33 entries.
C25_Witness ==
    /\ Issued
    /\ Len(default_permissions) = 33
    /\ Cardinality({i \in 1..Len(default_permissions) :
                      \E d \in RESOURCE_DOMAINS : default_permissions[i] = WildcardOf(d)}) = 6
    /\ HasMember(WrittenPayload, K_permissions, QuotedList(default_permissions))
    /\ env["JWT_SECRET"] = Some(STR_legacy) /\ env["APP__JWT_SECRET"] = None


\* The first non-empty source of the lifetime holds a text that int()
\* rejects, and a source after it holds an integer.
MalformedBeforeValid ==
    LET srcs == SourcesOf("jwt_expiration")
        at == NonEmptyAt(srcs)
    IN  /\ at # {}
        /\ ~IntOfStr(LifetimeText[1]).ok
        /\ \E i \in at : IntOfStr(srcs[i][1]).ok

\* C26: when the first non-empty source of the lifetime holds a text that
\* is no integer, the lifetime call returns that text and the issued token is
\* valid for 3600 seconds, in its payload and in the validity statement,
\* also when a later source holds an integer; the file is not opened when
\* the text, and the secret, come from variables.
C26_NoFallThrough ==
    (Issued /\ LifetimeText # None /\ ~IntOfStr(LifetimeText[1]).ok) =>
        /\ ret = Returned(LifetimeText)
        /\ TimesAre(WrittenPayload, clock[1].sec, DEFAULT_EXP_SECONDS)
        /\ StdoutLines[1] = ValidityLine(PyInt(DEFAULT_EXP_SECONDS))
        /\ (/\ \E n \in {"APP__JWT_EXPIRATION", "JWT_EXPIRATION"} : Truthy(env[n])
            /\ \E n \in {"APP__JWT_SECRET", "JWT_SECRET"} : Truthy(env[n])) =>
              file_opens = 0

\* C26 witness: APP__JWT_EXPIRATION is "abc", JWT_EXPIRATION is "120", the
\* file says 7200, and the token issued expires 3600 seconds after iat.
C26_Witness ==
    /\ Issued
    /\ MalformedBeforeValid
    /\ env["APP__JWT_EXPIRATION"] = Some(STR_abc)
    /\ env["JWT_EXPIRATION"] = Some(STR_120)
    /\ FileValue("jwt_expiration") = Some(<<55, 50, 48, 48>>)
    /\ IntMember(WrittenPayload, K_exp).n = IntMember(WrittenPayload, K_iat).n + 3600


\* C27 (as stated): the payload of every issued token has exp > iat,
\* whatever lifetime the variables or the file supply.
C27_PositiveLifetime ==
    Issued =>
        LET p == WrittenPayload
        IN  /\ IntMember(p, K_exp).ok /\ IntMember(p, K_iat).ok
            /\ IntMember(p, K_exp).n > IntMember(p, K_iat).n


\* One of the two environment variables of setting k holds a non-empty
\* value.
EnvSupplies(k) == Truthy(env[PrimaryVar(k)]) \/ Truthy(env[SecondaryVar(k)])

\* C28: load_config_value reaches open() only when both variables of the
\* setting asked for are unset or empty; a run whose secret and lifetime are
\* both in non-empty variables never opens the file; and of two such runs in
\* one environment, one without the file and one with a file that is
\* unreadable, not TOML, or holds other values, the second has the exit
\* status, the stdout and the stderr of the first.
C28_FileConsultedLazily ==
    /\ pc \in {"lcv_open", "lcv_read"} => ~EnvSupplies(key)
    /\ (EnvSupplies("jwt_secret") /\ EnvSupplies("jwt_expiration")) =>
          /\ file_opens = 0 /\ ~fh_open
          /\ (invocation = 2 /\ pc = "exited") =>
                /\ exit_status = prev.exit_status
                /\ stdout = prev.stdout
                /\ stderr = prev.stderr

\* C28 witness: the secret is in JWT_SECRET and the lifetime in
\* JWT_EXPIRATION; the first run had no file, the second has a file that
\* cannot be read, and it printed the first run's token.
C28_Witness ==
    /\ invocation = 2 /\ Issued
    /\ env = Env(Some(<<>>), Some(STR_legacy), None, Some(STR_120))
    /\ prev.file = FileMissing /\ file = FileUnreadable
    /\ file_opens = 0
    /\ WrittenToken = prev.token /\ exp_seconds = PyInt(120)


\* The text holds the word as a run of consecutive bytes.
Contains(text, word) ==
    \E i \in 1..(Len(text) - Len(word) + 1) :
        \A j \in 1..Len(word) : text[i + j - 1] = word[j]

\* A line up to and including its last '.', or the whole line if it has
\* none: the token line and the Authorization line without the signature.
UpToLastDot(line) ==
    LET P == PositionsOf(line, 46)
    IN  IF P = {} THEN line
        ELSE SubSeq(line, 1, CHOOSE i \in P : \A j \in P : j <= i)

\* The lines of a report, the signature segment left out.
WithoutSignature(out) ==
    LET lines == SplitOn(out, 10)
    IN  [n \in 1..Len(lines) |-> UpToLastDot(lines[n])] \o <<>>

\* The second run issued a token from another secret than the first, with
\* the first run's lifetime, clock value and identifiers.
OnlySecretDiffers ==
    /\ invocation = 2 /\ Issued /\ prev.exit_status = 0
    /\ secret # prev.secret
    /\ exp_seconds = prev.exp_seconds
    /\ now = prev.now
    /\ rng = prev.rng

\* C29: two runs that differ only in the secret write the same header and
\* payload segments and the same stdout but for the signature segment; and
\* the secret of a run stands neither in its decoded header and payload, nor
\* in its stdout, nor in a line of its stderr.
C29_SecretOnlyInSignature ==
    /\ OnlySecretDiffers =>
          LET segs == WrittenSegments
              before == SplitOn(SplitOn(prev.stdout, 10)[3], 46)
          IN  /\ segs[1] = before[1]
              /\ segs[2] = before[2]
              /\ WithoutSignature(stdout) = WithoutSignature(prev.stdout)
    /\ Truthy(secret) =>
          /\ ~Contains(stdout, secret[1])
          /\ \A n \in 1..Len(stderr) : ~Contains(stderr[n], secret[1])
          /\ Issued =>
                LET segs == WrittenSegments
                IN  /\ ~Contains(B64UrlDecode(segs[1]), secret[1])
                    /\ ~Contains(B64UrlDecode(segs[2]), secret[1])

\* C29 witness: the first run signed with "topsecret", the second with
\* "legacy", at the same second with the same identifiers: the two tokens
\* have the same first two segments and another signature.
C29_Witness ==
    /\ OnlySecretDiffers
    /\ prev.secret = Some(STR_topsecret) /\ secret = Some(STR_legacy)
    /\ LET segs == WrittenSegments
           before == SplitOn(prev.token, 46)
       IN  /\ segs[2] = before[2]
           /\ segs[3] # before[3]
           /\ Len(segs[3]) = 43


\* The number a validity statement gives: the decimal text, with or without
\* a '-', between "Generated admin JWT (valid for " and " seconds):".
StatedSeconds(line) ==
    LET text == SubSeq(line, Len(VALIDITY_HEAD) + 1, Len(line) - Len(VALIDITY_TAIL))
        neg == Len(text) > 0 /\ text[1] = 45
        first == IF neg THEN 2 ELSE 1
        got == ReadNat(text, first, 0)
    IN  [ok |-> /\ StartsWith(line, VALIDITY_HEAD)
                /\ SubSeq(line, Len(line) - Len(VALIDITY_TAIL) + 1, Len(line)) = VALIDITY_TAIL
                /\ Len(text) >= first
                /\ got.end = Len(text) + 1,
         n |-> IF neg THEN 0 - got.n ELSE got.n]

\* C30: in the report of every issued token, the number of seconds of the
\* validity statement is exp - iat of the payload of the token on the third
\* line, and the Authorization line is "Authorization: Bearer " followed by
\* that third line.
C30_ReportMatchesToken ==
    Issued =>
        LET lines == StdoutLines
            p == PayloadOf(lines[3])
            stated == StatedSeconds(lines[1])
        IN  /\ stated.ok
            /\ IntMember(p, K_exp).ok /\ IntMember(p, K_iat).ok
            /\ stated.n = IntMember(p, K_exp).n - IntMember(p, K_iat).n
            /\ lines[6] = STR_AuthBearer \o lines[3]

\* C30 witness: APP__JWT_EXPIRATION is "-60"; the report says "valid for
\* -60 seconds" and the payload's exp is 60 less than its iat.
C30_Witness ==
    /\ Issued
    /\ env["APP__JWT_EXPIRATION"] = Some(STR_minus60)
    /\ LET lines == StdoutLines
           p == PayloadOf(lines[3])
       IN  /\ StatedSeconds(lines[1]) = [ok |-> TRUE, n |-> 0 - 60]
           /\ IntMember(p, K_iat).n - IntMember(p, K_exp).n = 60
           /\ lines[6] = STR_AuthBearer \o lines[3]

=============================================================================
